---- MODULE Spec2Model ----
(***************************************************************************)
(* NanoBananaEditor: the request proxy (standalone Express server and      *)
(* serverless functions), the prompt builder, and the browser-side client  *)
(* adapter with the generate/edit mutation hooks.                          *)
(*                                                                         *)
(* JavaScript values are modelled as follows.  An object is a function     *)
(* from the names of the fields it has to their values; a missing field is *)
(* a name outside its DOMAIN.  An array is a sequence.  Prompt text is a   *)
(* sequence of text chunks (each chunk a literal piece of the string), so  *)
(* that template interpolation is concatenation and substring search is    *)
(* sub-sequence search.                                                    *)
(***************************************************************************)
EXTENDS Integers, Sequences, FiniteSets, TLC

VARIABLES
    env,          \* process.env of the proxy process
    pc,           \* position of the proxy request being served
    req,          \* <<>> or <<request>>: the request being served
    upstream,     \* the generateContent calls issued for this request, in order
    credReads,    \* number of reads of process.env.GEMINI_API_KEY for this request
    outcome,      \* <<>> or <<o>>: how the awaited upstream call settled
    response,     \* <<>> or <<r>>: the HTTP response sent for this request
    bpc,          \* prompt builder: "input" or "built"
    builder,      \* prompt builder: which copy of buildEditPrompt was called
    instruction,  \* prompt builder: the instruction argument
    hasMask,      \* prompt builder: the hasMask argument
    built,        \* prompt builder: <<>> or <<returned string>>
    isGenerating,         \* app store: the "generating" flag
    appError,             \* app store: <<>> (null) or <<message>>
    canvasImage,          \* app store: <<>> (null) or the data URI on the canvas
    editReferenceImages,  \* app store: URLs of the edit reference images
    brushStrokes,         \* app store: the brush strokes, each a list of points
    inflight,             \* browser: mutations started and not yet settled
    lastPost,             \* browser: <<>> or <<the apiService.post that settled since the last call began>>
    generations,          \* app store: currentProject.generations
    edits,                \* app store: currentProject.edits
    selectedGenerationId, \* app store: <<>> (null) or <<id>>
    selectedEditId,       \* app store: <<>> (null) or <<id>>
    nextId,               \* browser: the next value generateId() returns
    slots,         \* proxy under concurrent load: the requests being served
    dpc,           \* direct service: "idle", "parsed", "validating" or "validated"
    gerr,          \* direct service: <<>> or <<the error being classified>>
    gparsed,       \* direct service: <<>> or <<what parseGeminiError returned>>
    vkey,          \* direct service: <<>> or <<the key given to validateApiKey>>
    vcalls,        \* direct service: the generateContent calls validateApiKey made
    vresult,       \* direct service: <<>> or <<what validateApiKey returned>>
    notifications, \* notification store: the notification list
    storeTimers,   \* notification store: ids with a pending setTimeout
    toastTimers,   \* Toast components: ids with a pending setTimeout
    nextNotif,     \* notification store: the next value generateId() returns
    lastStep,      \* notification store: the operation that ran last
    serviceModule, \* settings modal: the module its geminiService import names
    inputKey,      \* settings modal: the text of the key field
    storedKey,     \* app store: apiKey, <<>> (null) or <<key>>
    modalOpen,     \* settings modal: the open flag its parent holds
    isValidating,  \* settings modal: the "validating" flag
    spc,           \* settings modal: "idle" or "validating" (handleSave awaits)
    savecalls,     \* settings modal: the generateContent calls handleSave caused
    saved,         \* settings modal: <<>> or <<the handleSave that just completed>>
    notice         \* settings modal: <<>> or <<the last showSuccess/showError>>

proxyVars == <<env, pc, req, upstream, credReads, outcome, response>>
promptVars == <<bpc, builder, instruction, hasMask, built>>
historyVars == <<generations, edits, selectedGenerationId, selectedEditId, nextId>>
clientVars ==
    <<isGenerating, appError, canvasImage, editReferenceImages, brushStrokes,
      inflight, lastPost, historyVars>>
concVars == <<slots>>
directVars == <<dpc, gerr, gparsed, vkey, vcalls, vresult>>
notifyVars == <<notifications, storeTimers, toastTimers, nextNotif, lastStep>>
\* the parts added to the proxy, the prompt builder and the hooks
settingsVars ==
    <<serviceModule, inputKey, storedKey, modalOpen, isValidating, spc,
      savecalls, saved, notice>>
auxVars == <<concVars, directVars, notifyVars, settingsVars>>
vars == <<proxyVars, promptVars, clientVars, auxVars>>

----------------------------------------------------------------------------
(* Bounds of the model *)

MaxRefs == 2      \* longest referenceImages list in a request
MaxParts == 2     \* most parts in the first candidate of an upstream result
MaxInstr == 3     \* most chunks in an instruction given to the prompt builder
MaxImages == 2    \* most images in a proxy answer received by the browser
MaxInflight == 2  \* most mutations the browser model lets run at once
MaxHistory == 3   \* most Generation and Edit records the browser model collects
MaxConcurrent == 2  \* most requests the proxy model serves at the same time
MaxMsg == 2       \* most chunks in the message of an error given to parseGeminiError
MaxNotifs == 2    \* most notifications the notification model adds

----------------------------------------------------------------------------
(* Generic helpers *)

RECURSIVE SeqsUpTo(_, _)
SeqsUpTo(S, n) ==
    IF n = 0 THEN {<<>>}
    ELSE LET shorter == SeqsUpTo(S, n - 1)
         IN  shorter \cup {Append(s, x) : s \in {t \in shorter : Len(t) = n - 1}, x \in S}

\* t occurs in s as one contiguous piece (String.prototype.includes)
Contains(s, t) ==
    \E i \in 0..(Len(s) - Len(t)) : SubSeq(s, i + 1, i + Len(t)) = t

EmptyObject == [f \in {} |-> f]

----------------------------------------------------------------------------
(* Prompt builder: src/api/_lib/helpers.ts, repeated in src/server.ts *)

EditHead == <<"Edit this image according to the following instruction: ">>
EditMid == <<"\n\nMaintain the original image's lighting, perspective, and overall composition. Make the changes look natural and seamlessly integrated.">>
EditTail == <<"\n\nPreserve image quality and ensure the edit looks professional and realistic.">>
MaskPhrase == <<"white pixels (value 255)">>
MaskClause ==
    <<"\n\nIMPORTANT: Apply changes ONLY where the mask image shows ">>
    \o MaskPhrase
    \o <<". Leave all other areas completely unchanged. Respect the mask boundaries precisely and maintain seamless blending at the edges.">>

buildEditPrompt_Inverted(instr, mask) ==
    LET maskInstruction == IF mask THEN <<>> ELSE MaskClause
    IN  EditHead \o instr \o EditMid \o maskInstruction \o EditTail

buildEditPrompt(instr, mask) ==
    LET maskInstruction == IF mask THEN MaskClause ELSE <<>>
    IN  EditHead \o instr \o EditMid \o maskInstruction \o EditTail

Server_buildEditPrompt(instr, mask) ==
    LET maskInstruction == IF mask THEN MaskClause ELSE <<>>
    IN  EditHead \o instr \o EditMid \o maskInstruction \o EditTail

Legacy_buildEditPrompt(instr, mask) ==
    LET maskInstruction == IF mask THEN MaskClause ELSE <<>>
    IN  EditHead \o instr \o EditMid \o maskInstruction \o EditTail

SegHead == <<"Analyze this image and create a segmentation mask for: ">>
SegTail == <<"\n\nReturn a JSON object with this exact structure:\n{\n  \"masks\": [\n    {\n      \"label\": \"description of the segmented object\",\n      \"box_2d\": [x, y, width, height],\n      \"mask\": \"base64-encoded binary mask image\"\n    }\n  ]\n}\n\nOnly segment the specific object or region requested. The mask should be a binary PNG where white pixels (255) indicate the selected region and black pixels (0) indicate the background.">>

buildSegmentationPrompt(query) == SegHead \o query \o SegTail
Server_buildSegmentationPrompt(query) == SegHead \o query \o SegTail
Legacy_buildSegmentationPrompt(query) == SegHead \o query \o SegTail

----------------------------------------------------------------------------
(* Request and upstream domains *)

Images == {"imgA", "imgB"}
Prompts == {<<"a banana">>, <<"a banana ", "on the moon">>}
Queries == {<<"the red car">>}
Masks == {"", "maskM"}
EnvKeys == {"", "key-1"}
Methods == {"POST", "GET"}
ModelId == "gemini-2.5-flash-image-preview"

RefFields ==
    {EmptyObject} \cup {[referenceImages |-> s] : s \in SeqsUpTo(Images, MaxRefs)}
MaskFields == {EmptyObject} \cup {[maskImage |-> m] : m \in Masks}

GenerateBodies == {[prompt |-> p] @@ r : p \in Prompts, r \in RefFields}
\* an instruction may itself quote the wording of the mask clause
EditInstructions == Prompts \cup {<<"write this on the sign:">> \o MaskClause}
EditBodies ==
    {[instruction |-> i, originalImage |-> o] @@ r @@ m :
        i \in EditInstructions, o \in {"imgO"}, r \in RefFields, m \in MaskFields}
SegmentBodies == {[image |-> im, query |-> q] : im \in {"imgO"}, q \in Queries}

\* process.env with GEMINI_API_KEY unset, empty, or set
Envs == {EmptyObject} \cup {[GEMINI_API_KEY |-> k] : k \in EnvKeys}

\* Texts the model may answer with, and what JSON.parse does with each
JsonTexts == {"{\"masks\":[]}"}
BadTexts == {"Here is the mask: {\"masks\":[]}"}
UndefinedText == "undefined"

JSONParse(t) ==
    CASE t = "{\"masks\":[]}" -> [threw |-> FALSE, value |-> [masks |-> <<>>]]
      [] t = "Here is the mask: {\"masks\":[]}" ->
            [threw |-> TRUE, message |-> "Unexpected token 'H', \"Here is the mask: {\"masks\":[]}\" is not valid JSON"]
      [] OTHER -> [threw |-> TRUE, message |-> "\"undefined\" is not valid JSON"]

\* Parts of a result: text parts and inline-data parts
ResultParts ==
    {[text |-> t] : t \in JsonTexts \cup BadTexts}
    \cup {[inlineData |-> [mimeType |-> "image/png", data |-> d]] : d \in Images}

\* GenerateContentResponse of @google/genai: candidates at the top level
Results ==
    {[candidates |-> <<>>]}
    \cup {[candidates |-> <<[content |-> [parts |-> ps]]>>] : ps \in SeqsUpTo(ResultParts, MaxParts)}

UpstreamErrors == {"quota exceeded", "fetch failed"}
Resolved == {[ok |-> TRUE, result |-> r] : r \in Results}
Rejected == {[ok |-> FALSE, message |-> m] : m \in UpstreamErrors}

----------------------------------------------------------------------------
(* Responses and handler steps *)

Json(status, body) == [status |-> status, type |-> "json", body |-> body]
Text(status, t) == [status |-> status, type |-> "text", text |-> t]
Empty(status) == [status |-> status, type |-> "empty"]

\* res.send(x): a string is sent as text, undefined sends no body
Send(status, t) == IF t = UndefinedText THEN Empty(status) ELSE Text(status, t)

Replied(r, reads) == [sent |-> <<r>>, calls |-> <<>>, reads |-> reads]
Awaiting(call) == [sent |-> <<>>, calls |-> <<call>>, reads |-> 1]

InlinePng(d) == [inlineData |-> [mimeType |-> "image/png", data |-> d]]
TypeErrorReading(prop) ==
    "Cannot read properties of undefined (reading '" \o prop \o "')"
MissingKey == "GEMINI_API_KEY is not set in environment variables."

IsInline(part) == "inlineData" \in DOMAIN part
InlineData(part) == part.inlineData.data

\* obj.candidates[0].content.parts
CandidateParts(obj) ==
    IF Len(obj.candidates) = 0
    THEN [threw |-> TRUE, message |-> TypeErrorReading("content")]
    ELSE [threw |-> FALSE, value |-> obj.candidates[1].content.parts]

\* parts[0].text
FirstText(parts) ==
    IF Len(parts) = 0
    THEN [threw |-> TRUE, message |-> TypeErrorReading("text")]
    ELSE [threw |-> FALSE,
          value |-> IF "text" \in DOMAIN parts[1] THEN parts[1].text ELSE UndefinedText]

----------------------------------------------------------------------------
(* Credential: src/api/_lib/helpers.ts, src/server.ts, legacy server *)

getApiKey_NoCheck(e) ==
    [threw |-> FALSE,
     value |-> IF "GEMINI_API_KEY" \in DOMAIN e THEN e.GEMINI_API_KEY ELSE ""]

getApiKey(e) ==
    IF "GEMINI_API_KEY" \in DOMAIN e /\ e.GEMINI_API_KEY # ""
    THEN [threw |-> FALSE, value |-> e.GEMINI_API_KEY]
    ELSE [threw |-> TRUE, message |-> MissingKey]

Server_getApiKey(e) ==
    IF "GEMINI_API_KEY" \in DOMAIN e /\ e.GEMINI_API_KEY # ""
    THEN [threw |-> FALSE, value |-> e.GEMINI_API_KEY]
    ELSE [threw |-> TRUE, message |-> MissingKey]

Legacy_getApiKey(e) ==
    IF "GEMINI_API_KEY" \in DOMAIN e /\ e.GEMINI_API_KEY # ""
    THEN [threw |-> FALSE, value |-> e.GEMINI_API_KEY]
    ELSE [threw |-> TRUE, message |-> MissingKey]

\* new GoogleGenAI({ apiKey: getApiKey() })
getGenAIInstance(e) ==
    LET k == getApiKey(e)
    IN  IF k.threw THEN k ELSE [threw |-> FALSE, value |-> [apiKey |-> k.value]]

\* genAI.models.generateContent({ model, contents })
GenerateContent(genAI, contents) ==
    [apiKey |-> genAI.apiKey, model |-> ModelId, contents |-> contents]

\* referenceImages && referenceImages.length > 0 ? one inline part per image : none
ReferenceParts(body) ==
    IF "referenceImages" \in DOMAIN body /\ Len(body.referenceImages) > 0
    THEN [i \in 1..Len(body.referenceImages) |-> InlinePng(body.referenceImages[i])]
    ELSE <<>>

\* !!maskImage
MaskTruthy(body) == "maskImage" \in DOMAIN body /\ body.maskImage # ""

\* parts.filter(part => part.inlineData).map(part => part.inlineData.data)
ExtractImages(parts) ==
    LET kept == SelectSeq(parts, IsInline)
    IN  [i \in 1..Len(kept) |-> InlineData(kept[i])]

----------------------------------------------------------------------------
(* Content assembly, one definition per handler that builds it *)

GenerateContents_NoRefs(body) == <<[text |-> body.prompt]>>

\* a contents array kept at module level: the parts of a request that is
\* still awaiting its upstream call are in it when the next request arrives
GenerateContents_Shared(body) ==
    LET pending == {k \in 1..Len(slots) : slots[k].pc = "awaiting"}
        left == IF pending = {} THEN <<>>
                ELSE slots[CHOOSE k \in pending : TRUE].calls[1].contents
    IN  left \o <<[text |-> body.prompt]>> \o ReferenceParts(body)

Server_GenerateContents(body) == <<[text |-> body.prompt]>> \o ReferenceParts(body)
Legacy_GenerateContents(body) == <<[text |-> body.prompt]>> \o ReferenceParts(body)
Api_GenerateContents(body) == <<[text |-> body.prompt]>> \o ReferenceParts(body)

EditContents_MaskFirst(body) ==
    <<[text |-> buildEditPrompt(body.instruction, MaskTruthy(body))],
      InlinePng(body.originalImage)>>
    \o (IF MaskTruthy(body) THEN <<InlinePng(body.maskImage)>> ELSE <<>>)
    \o ReferenceParts(body)

EditContents_MaskPresence(body) ==
    <<[text |-> buildEditPrompt(body.instruction, "maskImage" \in DOMAIN body)],
      InlinePng(body.originalImage)>>
    \o ReferenceParts(body)
    \o (IF MaskTruthy(body) THEN <<InlinePng(body.maskImage)>> ELSE <<>>)

Server_EditContents(body) ==
    <<[text |-> Server_buildEditPrompt(body.instruction, MaskTruthy(body))],
      InlinePng(body.originalImage)>>
    \o ReferenceParts(body)
    \o (IF MaskTruthy(body) THEN <<InlinePng(body.maskImage)>> ELSE <<>>)

Legacy_EditContents(body) ==
    <<[text |-> Legacy_buildEditPrompt(body.instruction, MaskTruthy(body))],
      InlinePng(body.originalImage)>>
    \o ReferenceParts(body)
    \o (IF MaskTruthy(body) THEN <<InlinePng(body.maskImage)>> ELSE <<>>)

Api_EditContents(body) ==
    <<[text |-> buildEditPrompt(body.instruction, MaskTruthy(body))],
      InlinePng(body.originalImage)>>
    \o ReferenceParts(body)
    \o (IF MaskTruthy(body) THEN <<InlinePng(body.maskImage)>> ELSE <<>>)

Server_SegmentContents(body) ==
    <<[text |-> Server_buildSegmentationPrompt(body.query)], InlinePng(body.image)>>
Legacy_SegmentContents(body) ==
    <<[text |-> Legacy_buildSegmentationPrompt(body.query)], InlinePng(body.image)>>
Api_SegmentContents(body) ==
    <<[text |-> buildSegmentationPrompt(body.query)], InlinePng(body.image)>>

----------------------------------------------------------------------------
(* Handlers.  Each handler has one await: X_Start is the code up to the    *)
(* generateContent call, X_Finish the code after it settled with o.  A     *)
(* throw anywhere inside the try block is answered by the catch block.     *)

CatchError_Generic(message) == Json(500, [error |-> "Internal Server Error"])

\* catch (error) { res.status(500).json({ error: error.message }) }
CatchError(message) == Json(500, [error |-> message])
MethodNotAllowed == Json(405, [error |-> "Method Not Allowed"])

\* result.candidates[0].content.parts  ->  { images }
ImagesFromResult(result) ==
    LET parts == CandidateParts(result)
    IN  IF parts.threw THEN CatchError(parts.message)
        ELSE Json(200, [images |-> ExtractImages(parts.value)])

\* result.response.candidates[0].content.parts  ->  { images }
ImagesFromResultResponse(result) ==
    IF "response" \notin DOMAIN result
    THEN CatchError(TypeErrorReading("candidates"))
    ELSE ImagesFromResult(result.response)

\* JSON.parse inside its own try/catch: raw text with status 200 on failure
ParseOrRaw(responseText) ==
    LET parsed == JSONParse(responseText)
    IN  IF parsed.threw THEN Send(200, responseText) ELSE Json(200, parsed.value)

\* JSON.parse inside the handler's try block: the catch block answers 500
ParseOrCatch(responseText) ==
    LET parsed == JSONParse(responseText)
    IN  IF parsed.threw THEN CatchError(parsed.message) ELSE Json(200, parsed.value)

(* src/server.ts *)

Server_Generate_Start(body, e) ==
    LET k == Server_getApiKey(e)
    IN  IF k.threw THEN Replied(CatchError(k.message), 1)
        ELSE Awaiting(GenerateContent([apiKey |-> k.value], Server_GenerateContents(body)))

Server_Generate_Finish(o) ==
    IF ~o.ok THEN CatchError(o.message) ELSE ImagesFromResultResponse(o.result)

Server_Edit_Start(body, e) ==
    LET k == Server_getApiKey(e)
    IN  IF k.threw THEN Replied(CatchError(k.message), 1)
        ELSE Awaiting(GenerateContent([apiKey |-> k.value], Server_EditContents(body)))

Server_Edit_Finish(o) ==
    IF ~o.ok THEN CatchError(o.message) ELSE ImagesFromResultResponse(o.result)

Server_Segment_Start(body, e) ==
    LET k == Server_getApiKey(e)
    IN  IF k.threw THEN Replied(CatchError(k.message), 1)
        ELSE Awaiting(GenerateContent([apiKey |-> k.value], Server_SegmentContents(body)))

Server_Segment_Finish(o) ==
    IF ~o.ok THEN CatchError(o.message)
    ELSE IF "response" \notin DOMAIN o.result
    THEN CatchError(TypeErrorReading("candidates"))
    ELSE LET parts == CandidateParts(o.result.response)
         IN  IF parts.threw THEN CatchError(parts.message)
             ELSE LET t == FirstText(parts.value)
                  IN  IF t.threw THEN CatchError(t.message) ELSE ParseOrCatch(t.value)

(* legacy standalone server, second half of src/unnamed/part_001 *)

Legacy_Generate_Start(body, e) ==
    LET k == Legacy_getApiKey(e)
    IN  IF k.threw THEN Replied(CatchError(k.message), 1)
        ELSE Awaiting(GenerateContent([apiKey |-> k.value], Legacy_GenerateContents(body)))

Legacy_Generate_Finish(o) ==
    IF ~o.ok THEN CatchError(o.message) ELSE ImagesFromResult(o.result)

Legacy_Edit_Start(body, e) ==
    LET k == Legacy_getApiKey(e)
    IN  IF k.threw THEN Replied(CatchError(k.message), 1)
        ELSE Awaiting(GenerateContent([apiKey |-> k.value], Legacy_EditContents(body)))

Legacy_Edit_Finish(o) ==
    IF ~o.ok THEN CatchError(o.message) ELSE ImagesFromResult(o.result)

Legacy_Segment_Start(body, e) ==
    LET k == Legacy_getApiKey(e)
    IN  IF k.threw THEN Replied(CatchError(k.message), 1)
        ELSE Awaiting(GenerateContent([apiKey |-> k.value], Legacy_SegmentContents(body)))

Legacy_Segment_Finish(o) ==
    IF ~o.ok THEN CatchError(o.message)
    ELSE LET parts == CandidateParts(o.result)
         IN  IF parts.threw THEN CatchError(parts.message)
             ELSE LET t == FirstText(parts.value)
                  IN  IF t.threw THEN CatchError(t.message) ELSE ParseOrCatch(t.value)

(* serverless functions: generate (src/unnamed/part_002), src/api/edit.ts,
   src/api/segment.ts and the second segment function src/unnamed/part_003 *)

Api_Generate_NoMethodCheck(method, body, e) ==
    LET g == getGenAIInstance(e)
    IN  IF g.threw THEN Replied(CatchError(g.message), 1)
        ELSE Awaiting(GenerateContent(g.value, Api_GenerateContents(body)))

Api_Generate_Start(method, body, e) ==
    IF method # "POST" THEN Replied(MethodNotAllowed, 0)
    ELSE LET g == getGenAIInstance(e)
         IN  IF g.threw THEN Replied(CatchError(g.message), 1)
             ELSE Awaiting(GenerateContent(g.value, Api_GenerateContents(body)))

Api_Generate_Finish(o) ==
    IF ~o.ok THEN CatchError(o.message) ELSE ImagesFromResult(o.result)

Api_Edit_WithConfig(method, body, e) ==
    IF method # "POST" THEN Replied(MethodNotAllowed, 0)
    ELSE LET g == getGenAIInstance(e)
             call == GenerateContent(g.value, Api_EditContents(body))
         IN  IF g.threw THEN Replied(CatchError(g.message), 1)
             ELSE Awaiting(IF "temperature" \in DOMAIN body
                           THEN call @@ [config |-> [temperature |-> body.temperature]]
                           ELSE call)

Api_Edit_Start(method, body, e) ==
    IF method # "POST" THEN Replied(MethodNotAllowed, 0)
    ELSE LET g == getGenAIInstance(e)
         IN  IF g.threw THEN Replied(CatchError(g.message), 1)
             ELSE Awaiting(GenerateContent(g.value, Api_EditContents(body)))

Api_Edit_Finish(o) ==
    IF ~o.ok THEN CatchError(o.message) ELSE ImagesFromResult(o.result)

Api_Segment_Start(method, body, e) ==
    IF method # "POST" THEN Replied(MethodNotAllowed, 0)
    ELSE LET g == getGenAIInstance(e)
         IN  IF g.threw THEN Replied(CatchError(g.message), 1)
             ELSE Awaiting(GenerateContent(g.value, Api_SegmentContents(body)))

Api_Segment_Finish(o) ==
    IF ~o.ok THEN CatchError(o.message)
    ELSE LET parts == CandidateParts(o.result)
         IN  IF parts.threw THEN CatchError(parts.message)
             ELSE LET t == FirstText(parts.value)
                  IN  IF t.threw THEN CatchError(t.message) ELSE ParseOrRaw(t.value)

Api_Segment2_Start(method, body, e) ==
    IF method # "POST" THEN Replied(MethodNotAllowed, 0)
    ELSE LET g == getGenAIInstance(e)
         IN  IF g.threw THEN Replied(CatchError(g.message), 1)
             ELSE Awaiting(GenerateContent(g.value, Api_SegmentContents(body)))

Api_Segment2_Finish(o) ==
    IF ~o.ok THEN CatchError(o.message)
    ELSE IF "response" \notin DOMAIN o.result
    THEN CatchError(TypeErrorReading("candidates"))
    ELSE LET parts == CandidateParts(o.result.response)
         IN  IF parts.threw THEN CatchError(parts.message)
             ELSE LET t == FirstText(parts.value)
                  IN  IF t.threw THEN CatchError(t.message) ELSE ParseOrRaw(t.value)

Finish(handler, o) ==
    CASE handler = "server.generate" -> Server_Generate_Finish(o)
      [] handler = "server.edit" -> Server_Edit_Finish(o)
      [] handler = "server.segment" -> Server_Segment_Finish(o)
      [] handler = "legacy.generate" -> Legacy_Generate_Finish(o)
      [] handler = "legacy.edit" -> Legacy_Edit_Finish(o)
      [] handler = "legacy.segment" -> Legacy_Segment_Finish(o)
      [] handler = "api.generate" -> Api_Generate_Finish(o)
      [] handler = "api.edit" -> Api_Edit_Finish(o)
      [] handler = "api.segment" -> Api_Segment_Finish(o)
      [] handler = "api.segment2" -> Api_Segment2_Finish(o)

\* the handler registered for a route, up to its await or its response
Start(handler, method, body, e) ==
    CASE handler = "server.generate" -> Server_Generate_Start(body, e)
      [] handler = "server.edit" -> Server_Edit_Start(body, e)
      [] handler = "server.segment" -> Server_Segment_Start(body, e)
      [] handler = "api.generate" -> Api_Generate_Start(method, body, e)
      [] handler = "api.edit" -> Api_Edit_Start(method, body, e)
      [] handler = "api.segment" -> Api_Segment_Start(method, body, e)

----------------------------------------------------------------------------
(* The proxy as a state machine: one request at a time is followed from    *)
(* its arrival to its response.                                            *)

IdleConc == slots = <<>>

IdleDirect ==
    /\ dpc = "idle"
    /\ gerr = <<>>
    /\ gparsed = <<>>
    /\ vkey = <<>>
    /\ vcalls = <<>>
    /\ vresult = <<>>

IdleNotify ==
    /\ notifications = <<>>
    /\ storeTimers = {}
    /\ toastTimers = {}
    /\ nextNotif = 1
    /\ lastStep = [op |-> "none"]

IdleSettings ==
    /\ serviceModule = "none"
    /\ inputKey = <<>>
    /\ storedKey = <<>>
    /\ modalOpen = FALSE
    /\ isValidating = FALSE
    /\ spc = "idle"
    /\ savecalls = <<>>
    /\ saved = <<>>
    /\ notice = <<>>

IdleAux == IdleConc /\ IdleDirect /\ IdleNotify /\ IdleSettings

IdlePrompt ==
    /\ bpc = "input"
    /\ builder = "none"
    /\ instruction = <<>>
    /\ hasMask = FALSE
    /\ built = <<>>

EmptyHistory ==
    /\ generations = <<>>
    /\ edits = <<>>
    /\ selectedGenerationId = <<>>
    /\ selectedEditId = <<>>
    /\ nextId = 1

IdleClient ==
    /\ isGenerating = FALSE
    /\ appError = <<>>
    /\ canvasImage = <<>>
    /\ editReferenceImages = <<>>
    /\ brushStrokes = <<>>
    /\ inflight = <<>>
    /\ lastPost = <<>>
    /\ EmptyHistory

InitProxy ==
    /\ env \in Envs
    /\ pc = "idle"
    /\ req = <<>>
    /\ upstream = <<>>
    /\ credReads = 0
    /\ outcome = <<>>
    /\ response = <<>>
    /\ IdlePrompt
    /\ IdleClient
    /\ IdleAux

Serve(handler, method, body, step) ==
    /\ pc = "idle"
    /\ req' = <<[handler |-> handler, method |-> method, body |-> body]>>
    /\ upstream' = step.calls
    /\ credReads' = step.reads
    /\ response' = step.sent
    /\ outcome' = <<>>
    /\ pc' = IF step.sent = <<>> THEN "awaiting" ELSE "done"
    /\ UNCHANGED <<env, promptVars, clientVars, auxVars>>

ServerGenerate ==
    \E body \in GenerateBodies :
        Serve("server.generate", "POST", body, Server_Generate_Start(body, env))
ServerEdit ==
    \E body \in EditBodies :
        Serve("server.edit", "POST", body, Server_Edit_Start(body, env))
ServerSegment ==
    \E body \in SegmentBodies :
        Serve("server.segment", "POST", body, Server_Segment_Start(body, env))
LegacyGenerate ==
    \E body \in GenerateBodies :
        Serve("legacy.generate", "POST", body, Legacy_Generate_Start(body, env))
LegacyEdit ==
    \E body \in EditBodies :
        Serve("legacy.edit", "POST", body, Legacy_Edit_Start(body, env))
LegacySegment ==
    \E body \in SegmentBodies :
        Serve("legacy.segment", "POST", body, Legacy_Segment_Start(body, env))
ApiGenerate ==
    \E method \in Methods, body \in GenerateBodies :
        Serve("api.generate", method, body, Api_Generate_Start(method, body, env))
ApiEdit ==
    \E method \in Methods, body \in EditBodies :
        Serve("api.edit", method, body, Api_Edit_Start(method, body, env))
ApiSegment ==
    \E method \in Methods, body \in SegmentBodies :
        Serve("api.segment", method, body, Api_Segment_Start(method, body, env))
ApiSegment2 ==
    \E method \in Methods, body \in SegmentBodies :
        Serve("api.segment2", method, body, Api_Segment2_Start(method, body, env))

\* the awaited generateContent promise settles and the handler runs to its end
Settle(o) ==
    /\ pc = "awaiting"
    /\ outcome' = <<o>>
    /\ response' = <<Finish(req[1].handler, o)>>
    /\ pc' = "done"
    /\ UNCHANGED <<env, req, upstream, credReads, promptVars, clientVars, auxVars>>

UpstreamResolves == \E o \in Resolved : Settle(o)
UpstreamRejects == \E o \in Rejected : Settle(o)

\* the response has been sent; the process waits for the next request
NextRequest ==
    /\ pc = "done"
    /\ pc' = "idle"
    /\ req' = <<>>
    /\ upstream' = <<>>
    /\ credReads' = 0
    /\ outcome' = <<>>
    /\ response' = <<>>
    /\ UNCHANGED <<env, promptVars, clientVars, auxVars>>

NextProxy ==
    \/ ServerGenerate \/ ServerEdit \/ ServerSegment
    \/ LegacyGenerate \/ LegacyEdit \/ LegacySegment
    \/ ApiGenerate \/ ApiEdit \/ ApiSegment \/ ApiSegment2
    \/ UpstreamResolves \/ UpstreamRejects
    \/ NextRequest

SpecProxy == InitProxy /\ [][NextProxy]_vars

----------------------------------------------------------------------------
(* Properties of the proxy, stated for SpecProxy *)

GenerateHandlers == {"server.generate", "legacy.generate", "api.generate"}
EditHandlers == {"server.edit", "legacy.edit", "api.edit"}
SegmentHandlers == {"server.segment", "legacy.segment", "api.segment", "api.segment2"}
ServerlessHandlers == {"api.generate", "api.edit", "api.segment", "api.segment2"}

KeyMissing == "GEMINI_API_KEY" \notin DOMAIN env \/ env.GEMINI_API_KEY = ""
Posted == req # <<>> /\ req[1].method = "POST"

\* number of reference images of a body; an absent list counts as none
RefCount(body) ==
    IF "referenceImages" \in DOMAIN body THEN Len(body.referenceImages) ELSE 0

RECURSIVE PayloadsOf(_)
PayloadsOf(parts) ==
    IF parts = <<>> THEN <<>>
    ELSE (IF "inlineData" \in DOMAIN Head(parts)
          THEN <<Head(parts).inlineData.data>> ELSE <<>>) \o PayloadsOf(Tail(parts))

\* C1: a POST to any handler of either deployment, with GEMINI_API_KEY unset
\* or empty, is answered 500 {error: message} at once and no upstream call is
\* made for it.
C1_MissingCredentialRejected ==
    (Posted /\ KeyMissing) =>
        /\ pc = "done"
        /\ response = <<[status |-> 500, type |-> "json", body |-> [error |-> MissingKey]]>>
        /\ upstream = <<>>

C1_Witness ==
    /\ Posted /\ req[1].handler = "api.edit"
    /\ env = [GEMINI_API_KEY |-> ""]
    /\ pc = "done" /\ response[1].status = 500

\* C2: the content array of an edit call has N+2 parts without a mask and N+3
\* with one (a mask is a non-empty maskImage): the text part, the original
\* image, the N reference images in request order, the mask image last.
C2_EditContentOrder ==
    (req # <<>> /\ req[1].handler \in EditHandlers /\ upstream # <<>>) =>
        LET b == req[1].body
            n == RefCount(b)
            masked == "maskImage" \in DOMAIN b /\ b.maskImage # ""
            c == upstream[1].contents
        IN  /\ Len(upstream) = 1
            /\ Len(c) = IF masked THEN n + 3 ELSE n + 2
            /\ DOMAIN c[1] = {"text"}
            /\ c[2] = [inlineData |-> [mimeType |-> "image/png", data |-> b.originalImage]]
            /\ \A i \in 1..n :
                 c[2 + i] = [inlineData |-> [mimeType |-> "image/png", data |-> b.referenceImages[i]]]
            /\ masked =>
                 c[n + 3] = [inlineData |-> [mimeType |-> "image/png", data |-> b.maskImage]]

C2_Witness ==
    /\ req # <<>> /\ req[1].handler = "api.edit" /\ pc = "awaiting"
    /\ RefCount(req[1].body) = 2
    /\ req[1].body.referenceImages[1] # req[1].body.referenceImages[2]
    /\ "maskImage" \in DOMAIN req[1].body /\ req[1].body.maskImage = "maskM"
    /\ Len(upstream[1].contents) = 5

\* C18: in every edit upstream call the prompt and the content array agree
\* about the mask: the template's mask clause follows the embedded
\* instruction if and only if the mask image is the last part of the content
\* array, and both are absent when maskImage is missing or the empty string.
C18_PromptAgreesWithMask ==
    (req # <<>> /\ req[1].handler \in EditHandlers /\ upstream # <<>>) =>
        LET b == req[1].body
            c == upstream[1].contents
            text == c[1].text
            given == "maskImage" \in DOMAIN b /\ b.maskImage # ""
            afterInstruction ==
                SubSeq(text, Len(EditHead) + Len(b.instruction) + 1, Len(text))
            clause == Contains(afterInstruction, MaskClause)
            maskLast ==
                /\ "maskImage" \in DOMAIN b
                /\ Len(c) = RefCount(b) + 3
                /\ c[Len(c)] = [inlineData |->
                                   [mimeType |-> "image/png", data |-> b.maskImage]]
        IN  /\ SubSeq(text, Len(EditHead) + 1, Len(EditHead) + Len(b.instruction))
                  = b.instruction
            /\ clause <=> maskLast
            /\ ~given => (~clause /\ ~maskLast /\ Len(c) = RefCount(b) + 2)
            /\ given => (clause /\ maskLast)

C18_Witness ==
    /\ req # <<>> /\ req[1].handler = "server.edit" /\ pc = "awaiting"
    /\ "maskImage" \in DOMAIN req[1].body /\ req[1].body.maskImage = ""
    /\ Contains(req[1].body.instruction, MaskPhrase)
    /\ Len(upstream[1].contents) = RefCount(req[1].body) + 2

\* C3: the content array of a generate call has N+1 parts: one text part that
\* is the prompt unchanged, then the N reference images in request order
\* (N = 0 when referenceImages is absent or empty).
C3_GenerateContentOrder ==
    (req # <<>> /\ req[1].handler \in GenerateHandlers /\ upstream # <<>>) =>
        LET b == req[1].body
            n == RefCount(b)
            c == upstream[1].contents
        IN  /\ Len(upstream) = 1
            /\ Len(c) = n + 1
            /\ c[1] = [text |-> b.prompt]
            /\ \A i \in 1..n :
                 c[1 + i] = [inlineData |-> [mimeType |-> "image/png", data |-> b.referenceImages[i]]]

C3_Witness ==
    /\ req # <<>> /\ req[1].handler = "api.generate" /\ pc = "awaiting"
    /\ RefCount(req[1].body) = 2
    /\ req[1].body.referenceImages[1] # req[1].body.referenceImages[2]
    /\ Len(upstream[1].contents) = 3

\* the upstream call succeeded and its first candidate starts with a text part
SegmentTextReturned ==
    /\ pc = "done" /\ req[1].handler \in SegmentHandlers
    /\ outcome # <<>> /\ outcome[1].ok
    /\ Len(outcome[1].result.candidates) > 0
    /\ LET parts == outcome[1].result.candidates[1].content.parts
       IN  Len(parts) > 0 /\ "text" \in DOMAIN parts[1]

SegmentText == outcome[1].result.candidates[1].content.parts[1].text

\* C4: a segmentation request whose upstream call succeeds is answered 200 in
\* every deployment variant: the parsed JSON value when the text is valid
\* JSON, the raw text as a plain-text body when it is malformed.
C4_SegmentParsedOrRaw ==
    SegmentTextReturned =>
        IF SegmentText \in JsonTexts
        THEN response = <<[status |-> 200, type |-> "json", body |-> JSONParse(SegmentText).value]>>
        ELSE response = <<[status |-> 200, type |-> "text", text |-> SegmentText]>>

\* C5: when the upstream call fails the answer is 500 {error: m}, m the
\* upstream error message unchanged, and exactly one upstream call was made.
C5_UpstreamFailureIs500 ==
    (pc = "done" /\ outcome # <<>> /\ ~outcome[1].ok) =>
        /\ response = <<[status |-> 500, type |-> "json", body |-> [error |-> outcome[1].message]]>>
        /\ Len(upstream) = 1

C5_Witness ==
    /\ pc = "done" /\ outcome # <<>> /\ ~outcome[1].ok
    /\ req[1].handler = "server.generate"
    /\ response[1].body = [error |-> "quota exceeded"]

\* C6: a serverless handler answers every non-POST request 405 without
\* reading the credential and without any upstream call.
C6_NonPostIs405 ==
    (req # <<>> /\ req[1].handler \in ServerlessHandlers /\ req[1].method # "POST") =>
        /\ pc = "done"
        /\ response[1].status = 405
        /\ credReads = 0
        /\ upstream = <<>>

C6_Witness ==
    /\ req # <<>> /\ req[1].handler = "api.generate" /\ req[1].method = "GET"
    /\ "GEMINI_API_KEY" \notin DOMAIN env
    /\ pc = "done" /\ response[1].status = 405

\* C7: when the upstream call of a generate or edit request succeeds (with a
\* first candidate), the answer is 200 {images: L}, L being the payloads of
\* the first candidate's inline-data parts in order (empty when there is none).
C7_ImagesExtracted ==
    (/\ pc = "done" /\ req[1].handler \in GenerateHandlers \cup EditHandlers
     /\ outcome # <<>> /\ outcome[1].ok
     /\ Len(outcome[1].result.candidates) > 0) =>
        response = <<[status |-> 200, type |-> "json",
                      body |-> [images |-> PayloadsOf(outcome[1].result.candidates[1].content.parts)]]>>

----------------------------------------------------------------------------
(* The proxy under concurrent load: up to MaxConcurrent requests are       *)
(* served at once by the same process (src/server.ts) or by serverless     *)
(* functions reading the same environment.  Each handler invocation has    *)
(* its own locals (contents, genAI, result); process.env is all they share. *)

\* fields a client may send that no handler destructures from req.body
ExtraFields == {EmptyObject, [temperature |-> 2, seed |-> 42, style |-> "noir"]}

ConcGenerateBodies ==
    {[prompt |-> <<"a banana">>] @@ r @@ x :
        r \in {EmptyObject, [referenceImages |-> <<"imgA">>]}, x \in ExtraFields}
ConcEditBodies ==
    {[instruction |-> <<"make the sky purple">>, originalImage |-> "imgO"] @@ m @@ x :
        m \in {EmptyObject, [maskImage |-> "maskM"]}, x \in ExtraFields}
ConcSegmentBodies == {[image |-> "imgO", query |-> <<"the red car">>]}

ConcOutcomes ==
    {[ok |-> TRUE,
      result |-> [candidates |-> <<[content |-> [parts |-> <<InlinePng("imgA")>>]]>>]],
     [ok |-> FALSE, message |-> "quota exceeded"]}

IdleSlot ==
    [pc |-> "idle", req |-> <<>>, calls |-> <<>>, outcome |-> <<>>, response |-> <<>>]

InitConc ==
    /\ env \in Envs
    /\ slots = [i \in 1..MaxConcurrent |-> IdleSlot]
    /\ pc = "idle"
    /\ req = <<>>
    /\ upstream = <<>>
    /\ credReads = 0
    /\ outcome = <<>>
    /\ response = <<>>
    /\ IdlePrompt
    /\ IdleClient
    /\ IdleDirect
    /\ IdleNotify
    /\ IdleSettings

\* a request arrives while others may be awaiting their upstream call; its
\* handler runs up to its own await (or to its response)
ConcServe(i, handler, method, body) ==
    /\ slots[i].pc = "idle"
    /\ LET step == Start(handler, method, body, env)
       IN  slots' = [slots EXCEPT ![i] =
                [pc |-> IF step.sent = <<>> THEN "awaiting" ELSE "done",
                 req |-> <<[handler |-> handler, method |-> method, body |-> body]>>,
                 calls |-> step.calls,
                 outcome |-> <<>>,
                 response |-> step.sent]]
    /\ UNCHANGED <<proxyVars, promptVars, clientVars, directVars, notifyVars,
                   settingsVars>>

ConcGenerate ==
    \E i \in 1..Len(slots), h \in {"server.generate", "api.generate"},
       body \in ConcGenerateBodies : ConcServe(i, h, "POST", body)
ConcEdit ==
    \E i \in 1..Len(slots), h \in {"server.edit", "api.edit"},
       body \in ConcEditBodies : ConcServe(i, h, "POST", body)
ConcSegment ==
    \E i \in 1..Len(slots), h \in {"server.segment", "api.segment"},
       body \in ConcSegmentBodies : ConcServe(i, h, "POST", body)

\* the upstream call of one of the awaiting requests settles
ConcSettle ==
    \E i \in 1..Len(slots), o \in ConcOutcomes :
        /\ slots[i].pc = "awaiting"
        /\ slots' = [slots EXCEPT ![i] =
                [@ EXCEPT !.pc = "done", !.outcome = <<o>>,
                          !.response = <<Finish(slots[i].req[1].handler, o)>>]]
        /\ UNCHANGED <<proxyVars, promptVars, clientVars, directVars, notifyVars,
                   settingsVars>>

\* a response has been sent and its invocation is over
ConcRelease ==
    \E i \in 1..Len(slots) :
        /\ slots[i].pc = "done"
        /\ slots' = [slots EXCEPT ![i] = IdleSlot]
        /\ UNCHANGED <<proxyVars, promptVars, clientVars, directVars, notifyVars,
                   settingsVars>>

NextConc == ConcGenerate \/ ConcEdit \/ ConcSegment \/ ConcSettle \/ ConcRelease

SpecConc == InitConc /\ [][NextConc]_vars

ContentsOf(slot) == [k \in 1..Len(slot.calls) |-> slot.calls[k].contents]

\* C11: requests served concurrently are independent.  Whatever else is in
\* flight or was served before, two invocations with the same route, method
\* and body have issued the same upstream call, and once their upstream
\* calls settled the same way they have sent the same response; a step of
\* one invocation changes nothing of another, nor the environment.
C11_RequestsIndependent ==
    /\ [](\A i, j \in 1..Len(slots) :
            (slots[i].req # <<>> /\ slots[i].req = slots[j].req) =>
                /\ slots[i].calls = slots[j].calls
                /\ (/\ slots[i].pc = "done" /\ slots[j].pc = "done"
                    /\ slots[i].outcome = slots[j].outcome) =>
                       slots[i].response = slots[j].response)
    /\ [][/\ env' = env
          /\ \A i, j \in 1..Len(slots) :
                (i # j /\ slots'[i] # slots[i]) => slots'[j] = slots[j]]_vars

C11_Witness ==
    /\ Len(slots) >= 2
    /\ slots[1].pc = "done" /\ slots[2].pc = "done"
    /\ slots[1].req = slots[2].req
    /\ slots[1].req[1].handler = "server.generate"
    /\ slots[1].outcome # <<>> /\ slots[1].outcome = slots[2].outcome
    /\ slots[1].response = slots[2].response

\* C12: the standalone server and the serverless functions implement the
\* same generate and edit: for the same POST body, credential and upstream
\* result they send the same content array and the same status and body.
C12_VariantsAgree ==
    \A i, j \in 1..Len(slots) :
        (/\ slots[i].req # <<>> /\ slots[j].req # <<>>
         /\ <<slots[i].req[1].handler, slots[j].req[1].handler>> \in
               {<<"server.generate", "api.generate">>, <<"server.edit", "api.edit">>}
         /\ slots[i].req[1].method = "POST" /\ slots[j].req[1].method = "POST"
         /\ slots[i].req[1].body = slots[j].req[1].body) =>
            /\ ContentsOf(slots[i]) = ContentsOf(slots[j])
            /\ (/\ slots[i].pc = "done" /\ slots[j].pc = "done"
                /\ slots[i].outcome = slots[j].outcome) =>
                   slots[i].response = slots[j].response

\* the documented fields of a generate or an edit body
Documented(body) ==
    [f \in DOMAIN body \cap {"prompt", "instruction", "originalImage",
                              "referenceImages", "maskImage"} |-> body[f]]

\* C15: the upstream call depends only on the documented body fields: two
\* generate requests that agree on prompt and referenceImages, or two edit
\* requests that agree on instruction, originalImage, referenceImages and
\* maskImage, have issued identical calls (the fixed model identifier, the
\* same content array), whatever temperature, seed or other fields they carry.
C15_CallFromDocumentedFields ==
    \A i, j \in 1..Len(slots) :
        (/\ slots[i].req # <<>> /\ slots[j].req # <<>>
         /\ slots[i].req[1].handler = slots[j].req[1].handler
         /\ slots[i].req[1].handler \in
               {"server.generate", "api.generate", "server.edit", "api.edit"}
         /\ Documented(slots[i].req[1].body) = Documented(slots[j].req[1].body)) =>
            /\ slots[i].calls = slots[j].calls
            /\ \A k \in 1..Len(slots[i].calls) :
                  /\ slots[i].calls[k].model = "gemini-2.5-flash-image-preview"
                  /\ DOMAIN slots[i].calls[k] = {"apiKey", "model", "contents"}

C15_Witness ==
    /\ Len(slots) >= 2
    /\ slots[1].pc = "awaiting" /\ slots[2].pc = "awaiting"
    /\ slots[1].req[1].handler = "api.edit" /\ slots[2].req[1].handler = "api.edit"
    /\ "temperature" \in DOMAIN slots[1].req[1].body
    /\ "temperature" \notin DOMAIN slots[2].req[1].body
    /\ "maskImage" \in DOMAIN slots[1].req[1].body
    /\ slots[1].calls = slots[2].calls

----------------------------------------------------------------------------
(* The direct service: parseGeminiError and GeminiService.validateApiKey   *)
(* of src/src/services/apiService.ts, which call the model from the        *)
(* browser with a user-supplied key.                                       *)

\* pieces an error message is made of; the markers parseGeminiError looks for
\* are among them
ErrorChunks ==
    {"API_KEY_INVALID", "invalid API key", "PERMISSION_DENIED",
     "QUOTA_EXCEEDED", "quota exceeded", "network", "fetch",
     "INVALID_ARGUMENT", "invalid", "model overloaded"}

\* the markers that occur in a chunk as a substring (case-sensitive)
MarkersIn(chunk) ==
    IF chunk = "invalid API key" THEN {"invalid API key", "invalid"} ELSE {chunk}

\* errorMessage.includes(marker)
Includes(message, marker) ==
    \E i \in 1..Len(message) : marker \in MarkersIn(message[i])

\* Error objects as the SDK and fetch throw them: message (possibly empty),
\* name, and an HTTP status on some of them
GeminiErrors ==
    {[message |-> msg, name |-> nm] @@ st :
        msg \in SeqsUpTo(ErrorChunks, MaxMsg),
        nm \in {"Error", "NetworkError"},
        st \in {EmptyObject} \cup {[status |-> c] : c \in {400, 401, 403, 429, 500}}}

\* error.message || error.toString(); toString() of an Error without a
\* message is its name
ErrorMessage(error) == IF error.message # <<>> THEN error.message ELSE <<error.name>>

HasStatus(error, code) == "status" \in DOMAIN error /\ error.status = code

GeminiError(type, message, userMessage) ==
    [type |-> type, message |-> message, userMessage |-> userMessage]

parseGeminiError_QuotaFirst(error) ==
    LET errorMessage == ErrorMessage(error)
    IN  IF \/ Includes(errorMessage, "QUOTA_EXCEEDED")
           \/ Includes(errorMessage, "quota exceeded")
           \/ HasStatus(error, 429)
        THEN GeminiError("quota_exceeded", errorMessage,
                 "API quota exceeded. Please wait and try again later, or check your billing in Google AI Studio.")
        ELSE IF \/ Includes(errorMessage, "API_KEY_INVALID")
                \/ Includes(errorMessage, "invalid API key")
                \/ Includes(errorMessage, "PERMISSION_DENIED")
                \/ HasStatus(error, 401)
                \/ HasStatus(error, 403)
        THEN GeminiError("api_key_invalid", errorMessage,
                 "Invalid API key. Please check your Gemini API key in settings.")
        ELSE IF \/ Includes(errorMessage, "network")
                \/ Includes(errorMessage, "fetch")
                \/ error.name = "NetworkError"
        THEN GeminiError("network_error", errorMessage,
                 "Network error. Please check your internet connection and try again.")
        ELSE IF \/ Includes(errorMessage, "INVALID_ARGUMENT")
                \/ Includes(errorMessage, "invalid")
                \/ HasStatus(error, 400)
        THEN GeminiError("invalid_request", errorMessage,
                 "Invalid request format. Please try again with different settings.")
        ELSE GeminiError("unknown_error", errorMessage,
                 "An unexpected error occurred. Please try again.")

parseGeminiError(error) ==
    LET errorMessage == ErrorMessage(error)
    IN  IF \/ Includes(errorMessage, "API_KEY_INVALID")
           \/ Includes(errorMessage, "invalid API key")
           \/ Includes(errorMessage, "PERMISSION_DENIED")
           \/ HasStatus(error, 401)
           \/ HasStatus(error, 403)
        THEN GeminiError("api_key_invalid", errorMessage,
                 "Invalid API key. Please check your Gemini API key in settings.")
        ELSE IF \/ Includes(errorMessage, "QUOTA_EXCEEDED")
                \/ Includes(errorMessage, "quota exceeded")
                \/ HasStatus(error, 429)
        THEN GeminiError("quota_exceeded", errorMessage,
                 "API quota exceeded. Please wait and try again later, or check your billing in Google AI Studio.")
        ELSE IF \/ Includes(errorMessage, "network")
                \/ Includes(errorMessage, "fetch")
                \/ error.name = "NetworkError"
        THEN GeminiError("network_error", errorMessage,
                 "Network error. Please check your internet connection and try again.")
        ELSE IF \/ Includes(errorMessage, "INVALID_ARGUMENT")
                \/ Includes(errorMessage, "invalid")
                \/ HasStatus(error, 400)
        THEN GeminiError("invalid_request", errorMessage,
                 "Invalid request format. Please try again with different settings.")
        ELSE GeminiError("unknown_error", errorMessage,
                 "An unexpected error occurred. Please try again.")

ValidateKeys == {"key-1", "key-2"}

\* validateApiKey up to its await: a client for the given key, one test call
validateApiKey_Start(apiKey) ==
    LET tempGenAI == [apiKey |-> apiKey]
    IN  <<GenerateContent(tempGenAI, <<[text |-> <<"Test">>]>>)>>

validateApiKey_Rethrow(o) ==
    IF o.ok THEN [threw |-> FALSE, value |-> [valid |-> TRUE]]
    ELSE [threw |-> TRUE, message |-> ErrorMessage(o.error)]

\* validateApiKey once the test call settled with o
validateApiKey_Finish(o) ==
    IF o.ok THEN [threw |-> FALSE, value |-> [valid |-> TRUE]]
    ELSE [threw |-> FALSE,
          value |-> [valid |-> FALSE, error |-> parseGeminiError(o.error)]]

InitDirect ==
    /\ IdleDirect
    /\ env = EmptyObject
    /\ pc = "idle"
    /\ req = <<>>
    /\ upstream = <<>>
    /\ credReads = 0
    /\ outcome = <<>>
    /\ response = <<>>
    /\ IdlePrompt
    /\ IdleClient
    /\ IdleConc
    /\ IdleNotify
    /\ IdleSettings

\* parseGeminiError(error), as the catch blocks of the service call it
ParseError ==
    \E error \in GeminiErrors :
        /\ dpc = "idle"
        /\ gerr' = <<error>>
        /\ gparsed' = <<parseGeminiError(error)>>
        /\ dpc' = "parsed"
        /\ UNCHANGED <<vkey, vcalls, vresult>>
        /\ UNCHANGED <<proxyVars, promptVars, clientVars, concVars, notifyVars,
                   settingsVars>>

ValidateStart ==
    \E apiKey \in ValidateKeys :
        /\ dpc = "idle"
        /\ vkey' = <<apiKey>>
        /\ vcalls' = validateApiKey_Start(apiKey)
        /\ dpc' = "validating"
        /\ UNCHANGED <<gerr, gparsed, vresult>>
        /\ UNCHANGED <<proxyVars, promptVars, clientVars, concVars, notifyVars,
                   settingsVars>>

ValidateSettle(o) ==
    /\ dpc = "validating"
    /\ gerr' = IF o.ok THEN <<>> ELSE <<o.error>>
    /\ vresult' = <<validateApiKey_Finish(o)>>
    /\ dpc' = "validated"
    /\ UNCHANGED <<gparsed, vkey, vcalls>>
    /\ UNCHANGED <<proxyVars, promptVars, clientVars, concVars, notifyVars,
                   settingsVars>>

ValidateResolves == ValidateSettle([ok |-> TRUE])
ValidateRejects ==
    \E error \in GeminiErrors : ValidateSettle([ok |-> FALSE, error |-> error])

DirectReturn ==
    /\ dpc \in {"parsed", "validated"}
    /\ dpc' = "idle"
    /\ gerr' = <<>>
    /\ gparsed' = <<>>
    /\ vkey' = <<>>
    /\ vcalls' = <<>>
    /\ vresult' = <<>>
    /\ UNCHANGED <<proxyVars, promptVars, clientVars, concVars, notifyVars,
                   settingsVars>>

NextDirect ==
    \/ ParseError \/ ValidateStart \/ ValidateResolves \/ ValidateRejects
    \/ DirectReturn

SpecDirect == InitDirect /\ [][NextDirect]_vars

\* the kind the rules of the claim give an error, first match first
KindByRules(error) ==
    LET msg == IF error.message # <<>> THEN error.message ELSE <<error.name>>
        has(marker) == \E i \in 1..Len(msg) :
                          \/ msg[i] = marker
                          \/ msg[i] = "invalid API key" /\ marker = "invalid"
        status(code) == "status" \in DOMAIN error /\ error.status = code
    IN  IF \/ has("API_KEY_INVALID") \/ has("invalid API key")
           \/ has("PERMISSION_DENIED") \/ status(401) \/ status(403)
        THEN "api_key_invalid"
        ELSE IF has("QUOTA_EXCEEDED") \/ has("quota exceeded") \/ status(429)
        THEN "quota_exceeded"
        ELSE IF has("network") \/ has("fetch") \/ error.name = "NetworkError"
        THEN "network_error"
        ELSE IF has("INVALID_ARGUMENT") \/ has("invalid") \/ status(400)
        THEN "invalid_request"
        ELSE "unknown_error"

C14_ValidateOneCallNoThrow ==
    /\ dpc \in {"validating", "validated"} =>
          vcalls = <<[apiKey |-> vkey[1],
                      model |-> "gemini-2.5-flash-image-preview",
                      contents |-> <<[text |-> <<"Test">>]>>]>>
    /\ dpc = "validated" =>
          /\ ~vresult[1].threw
          /\ vresult[1].value.valid <=> gerr = <<>>
          /\ gerr = <<>> => vresult[1].value = [valid |-> TRUE]
          /\ gerr # <<>> =>
                /\ DOMAIN vresult[1].value = {"valid", "error"}
                /\ vresult[1].value.error.type = KindByRules(gerr[1])
                /\ vresult[1].value.error.message = ErrorMessage(gerr[1])

C14_Witness ==
    /\ dpc = "validated" /\ vkey = <<"key-2">>
    /\ gerr # <<>> /\ "status" \in DOMAIN gerr[1] /\ gerr[1].status = 401
    /\ ~vresult[1].threw /\ ~vresult[1].value.valid
    /\ vresult[1].value.error.type = "api_key_invalid"

----------------------------------------------------------------------------
(* Notifications: src/src/store/useNotificationStore.ts, shown by          *)
(* src/src/components/NotificationContainer.tsx as one Toast               *)
(* (src/src/components/ui/Toast.tsx) per notification.  Time is not        *)
(* modelled: a pending setTimeout callback runs at some later step.        *)

ErrorDuration == 8000
OtherDuration == 5000

NotificationTypes == {"success", "error", "warning", "info"}
\* the duration argument: absent, zero, or a positive number of milliseconds
GivenDurations == {<<>>, <<0>>, <<3000>>}
NotifIds == 1..MaxNotifs

\* notification.duration ?? (notification.type === 'error' ? 8000 : 5000)
DurationOf(type, given) ==
    IF given # <<>> THEN given[1]
    ELSE IF type = "error" THEN ErrorDuration ELSE OtherDuration

ScheduledTimers_Never(timers, notification) == timers

\* if (newNotification.duration > 0) setTimeout(...)
ScheduledTimers(timers, notification) ==
    IF notification.duration > 0 THEN timers \cup {notification.id} ELSE timers

FilterOut_Oldest(list, id) == IF list = <<>> THEN list ELSE Tail(list)

\* notifications.filter(n => n.id !== id)
FilterOut(list, id) == SelectSeq(list, LAMBDA n : n.id # id)

Listed(id) == \E k \in 1..Len(notifications) : notifications[k].id = id

InitNotify ==
    /\ IdleNotify
    /\ env = EmptyObject
    /\ pc = "idle"
    /\ req = <<>>
    /\ upstream = <<>>
    /\ credReads = 0
    /\ outcome = <<>>
    /\ response = <<>>
    /\ IdlePrompt
    /\ IdleClient
    /\ IdleConc
    /\ IdleDirect
    /\ IdleSettings

\* addNotification; the container then mounts a Toast for the new entry,
\* whose effect starts the Toast's own timer
AddNotification ==
    \E type \in NotificationTypes, given \in GivenDurations :
        /\ nextNotif <= MaxNotifs
        /\ LET newNotification ==
                   [id |-> nextNotif, type |-> type, duration |-> DurationOf(type, given)]
           IN  /\ notifications' = Append(notifications, newNotification)
               /\ storeTimers' = ScheduledTimers(storeTimers, newNotification)
               /\ toastTimers' = IF newNotification.duration > 0
                                 THEN toastTimers \cup {newNotification.id}
                                 ELSE toastTimers
        /\ lastStep' = [op |-> "addNotification", id |-> nextNotif,
                        type |-> type, given |-> given]
        /\ nextNotif' = nextNotif + 1
        /\ UNCHANGED <<proxyVars, promptVars, clientVars, concVars, directVars,
                   settingsVars>>

\* the store's setTimeout callback for id runs; a removed entry's Toast
\* unmounts, which clears the Toast's timer
StoreTimerFires(id) ==
    /\ id \in storeTimers
    /\ storeTimers' = storeTimers \ {id}
    /\ notifications' = FilterOut(notifications, id)
    /\ toastTimers' = toastTimers \ {id}
    /\ lastStep' = [op |-> "storeTimer", id |-> id, listed |-> Listed(id)]
    /\ UNCHANGED nextNotif
    /\ UNCHANGED <<proxyVars, promptVars, clientVars, concVars, directVars,
                   settingsVars>>

\* removeNotification(id)
removeNotification(id, op) ==
    /\ notifications' = FilterOut(notifications, id)
    /\ toastTimers' = toastTimers \ {id}
    /\ lastStep' = [op |-> op, id |-> id]
    /\ UNCHANGED <<storeTimers, nextNotif>>
    /\ UNCHANGED <<proxyVars, promptVars, clientVars, concVars, directVars,
                   settingsVars>>

\* the Toast's setTimeout callback runs: onClose(notification.id)
ToastTimerFires(id) ==
    /\ id \in toastTimers
    /\ removeNotification(id, "toastTimer")

StoreTimer == \E id \in NotifIds : StoreTimerFires(id)
ToastTimer == \E id \in NotifIds : ToastTimerFires(id)

\* the user closes a Toast, or any caller removes an id
RemoveNotification ==
    \E id \in NotifIds : removeNotification(id, "removeNotification")

ClearNotifications ==
    /\ notifications' = <<>>
    /\ toastTimers' = {}
    /\ lastStep' = [op |-> "clearNotifications"]
    /\ UNCHANGED <<storeTimers, nextNotif>>
    /\ UNCHANGED <<proxyVars, promptVars, clientVars, concVars, directVars,
                   settingsVars>>

NextNotify ==
    \/ AddNotification \/ StoreTimer \/ ToastTimer
    \/ RemoveNotification \/ ClearNotifications

\* a pending setTimeout callback of the store is eventually run
SpecNotify ==
    /\ InitNotify /\ [][NextNotify]_vars
    /\ \A id \in NotifIds : WF_vars(StoreTimerFires(id))

\* C17: a notification added with a positive duration (8000 ms for type
\* error and 5000 ms for the other types when none is given) is eventually
\* removed from the list without any user action; a notification added with
\* duration 0 leaves the list only by removeNotification for its id or by
\* clearNotifications.
C17_NotificationsTransient ==
    /\ \A id \in NotifIds :
          (\E k \in 1..Len(notifications) :
              notifications[k].id = id /\ notifications[k].duration > 0)
          ~> ~Listed(id)
    /\ [][/\ nextNotif' # nextNotif =>
                LET added == notifications'[Len(notifications')]
                IN  /\ SubSeq(notifications', 1, Len(notifications)) = notifications
                    /\ Len(notifications') = Len(notifications) + 1
                    /\ added.id = lastStep'.id
                    /\ added.duration =
                          IF lastStep'.given # <<>> THEN lastStep'.given[1]
                          ELSE IF lastStep'.type = "error" THEN 8000 ELSE 5000
          /\ \A k \in 1..Len(notifications) :
                (/\ notifications[k].duration = 0
                 /\ \A m \in 1..Len(notifications') :
                       notifications'[m] # notifications[k]) =>
                    \/ lastStep' = [op |-> "removeNotification",
                                    id |-> notifications[k].id]
                    \/ lastStep' = [op |-> "clearNotifications"]
      ]_vars

C17_Witness ==
    /\ nextNotif = 3
    /\ notifications = <<[id |-> 1, type |-> "info", duration |-> 0]>>
    /\ lastStep = [op |-> "storeTimer", id |-> 2, listed |-> TRUE]
    /\ 1 \notin storeTimers

----------------------------------------------------------------------------
(* The prompt builder as a state machine: the arguments are chosen in the  *)
(* initial state and one of the copies of buildEditPrompt is applied.      *)

InstructionChunks ==
    {"make the sky purple"} \cup {MaskClause[i] : i \in 1..Len(MaskClause)}

IdleProxy ==
    /\ env = EmptyObject
    /\ pc = "idle"
    /\ req = <<>>
    /\ upstream = <<>>
    /\ credReads = 0
    /\ outcome = <<>>
    /\ response = <<>>

InitPrompt ==
    /\ bpc = "input"
    /\ builder = "none"
    /\ instruction \in SeqsUpTo(InstructionChunks, MaxInstr)
    /\ hasMask \in BOOLEAN
    /\ built = <<>>
    /\ IdleProxy
    /\ IdleClient
    /\ IdleAux

Build(copy, result) ==
    /\ bpc = "input"
    /\ bpc' = "built"
    /\ builder' = copy
    /\ built' = <<result>>
    /\ UNCHANGED <<instruction, hasMask, proxyVars, clientVars, auxVars>>

BuildHelpers == Build("helpers", buildEditPrompt(instruction, hasMask))
BuildServer == Build("server", Server_buildEditPrompt(instruction, hasMask))
BuildLegacy == Build("legacy", Legacy_buildEditPrompt(instruction, hasMask))

NextPrompt == BuildHelpers \/ BuildServer \/ BuildLegacy

SpecPrompt == InitPrompt /\ [][NextPrompt]_vars

\* what the copy that was called returns for the other value of hasMask
BuiltBy(copy, instr, mask) ==
    CASE copy = "helpers" -> buildEditPrompt(instr, mask)
      [] copy = "server" -> Server_buildEditPrompt(instr, mask)
      [] copy = "legacy" -> Legacy_buildEditPrompt(instr, mask)

\* with is without, with the piece clause inserted at one place
InsertedAt(with, without, clause) ==
    \E k \in 0..Len(without) :
        with = SubSeq(without, 1, k) \o clause \o SubSeq(without, k + 1, Len(without))

RestOfTemplateSame ==
    InsertedAt(BuiltBy(builder, instruction, TRUE),
               BuiltBy(builder, instruction, FALSE), MaskClause)

\* C8 as stated: for every instruction and hasMask the returned string
\* contains the mask clause (with its literal phrase) iff hasMask is true,
\* contains the instruction as one contiguous piece, and is otherwise the
\* same for both values of hasMask.
C8_MaskClauseIffHasMask ==
    bpc = "built" =>
        /\ Contains(built[1], MaskClause) <=> hasMask
        /\ Contains(built[1], instruction)
        /\ RestOfTemplateSame

\* C8 amended: the equivalence holds for every instruction that does not
\* itself contain the phrase 'white pixels (value 255)'; for every
\* instruction the clause is present when hasMask is true, the instruction
\* is embedded as one contiguous piece and the rest of the template is the
\* same for both values of hasMask.
C8_MaskClauseIffHasMaskUnlessQuoted ==
    bpc = "built" =>
        /\ hasMask => Contains(built[1], MaskClause) /\ Contains(built[1], MaskPhrase)
        /\ ~Contains(instruction, MaskPhrase) =>
              /\ Contains(built[1], MaskClause) <=> hasMask
              /\ Contains(built[1], MaskPhrase) <=> hasMask
        /\ Contains(built[1], instruction)
        /\ RestOfTemplateSame

C8_Witness ==
    /\ bpc = "built" /\ builder = "helpers"
    /\ instruction = <<"make the sky purple">> /\ hasMask
    /\ Contains(built[1], <<"make the sky purple">>)
    /\ Contains(built[1], <<"white pixels (value 255)">>)

----------------------------------------------------------------------------
(* Browser side: src/src/services/apiService.ts (ApiService),              *)
(* src/src/services/geminiService.ts (GeminiService over the proxy) and    *)
(* the mutation hooks in the first half of src/unnamed/part_001.           *)

DataPrefix == "data:image/png;base64,"
DataUri(base64) == <<DataPrefix, base64>>
HttpUrl == <<"https://example.com/ref.png">>

\* url.includes('base64,')
IncludesBase64(url) == \E i \in 1..Len(url) : url[i] = DataPrefix

\* url.split('base64,')[1]: what lies between the first 'base64,' and the next
AfterBase64(url) ==
    LET first == CHOOSE i \in 1..Len(url) :
                    url[i] = DataPrefix /\ \A j \in 1..(i - 1) : url[j] # DataPrefix
        later == {j \in (first + 1)..Len(url) : url[j] = DataPrefix}
        stop == IF later = {} THEN Len(url) + 1
                ELSE CHOOSE j \in later : \A k \in later : j <= k
    IN  SubSeq(url, first + 1, stop - 1)

Instructions == {<<"make the sky purple">>}
ReferenceUrlLists ==
    {<<>>, <<DataUri("imgA")>>, <<HttpUrl, DataUri("imgB")>>}
StrokeLists ==
    {<<>>,
     <<[points |-> <<1, 1>>, brushSize |-> 20]>>,
     <<[points |-> <<1, 1, 5, 5>>, brushSize |-> 20]>>}

Statuses == {200, 405, 500}
\* the GenerationRequests the prompt composer hands to generate()
ClientRequests ==
    {[prompt |-> <<"a banana">>] @@ r :
        r \in {EmptyObject, [referenceImages |-> <<"imgA">>]}}
\* the images arrays the proxy answers with: none, one, or several different
\* images in a given order
ImageLists ==
    {[i \in 1..n |-> IF i % 2 = 1 THEN "imgB" ELSE "imgA"] : n \in 0..MaxImages}
JsonBodies ==
    {[images |-> im] : im \in ImageLists}
    \cup {[error |-> m] : m \in {"quota exceeded"}}
\* a fetch rejects (network failure) or resolves with a status and a body
\* that response.json() can parse (<<value>>) or not (<<>>)
FetchOutcomes ==
    {[network |-> TRUE]}
    \cup {[network |-> FALSE, status |-> st, json |-> j] :
            st \in Statuses, j \in {<<>>} \cup {<<v>> : v \in JsonBodies}}

GenericError == "An unexpected error occurred. Please try again."

\* fetch(endpoint, { method: 'POST', headers, body: JSON.stringify(body) })
ApiService_post_fetch(endpoint, body) ==
    <<[endpoint |-> endpoint, method |-> "POST", body |-> body]>>

ApiService_post_NoOkCheck(o) ==
    IF o.network \/ o.json = <<>>
    THEN [threw |-> TRUE, message |-> GenericError]
    ELSE [threw |-> FALSE, value |-> o.json[1]]

\* the rest of post once the fetch settled with o: response.ok is status 200..299
ApiService_post(o) ==
    IF o.network THEN [threw |-> TRUE, message |-> GenericError]
    ELSE IF ~(o.status >= 200 /\ o.status <= 299)
    THEN [threw |-> TRUE, message |-> GenericError]
    ELSE IF o.json = <<>> THEN [threw |-> TRUE, message |-> GenericError]
    ELSE [threw |-> FALSE, value |-> o.json[1]]

\* response.images; <<>> stands for undefined
ImagesField(value) == IF "images" \in DOMAIN value THEN <<value.images>> ELSE <<>>

GeminiService_generateImage(posted) ==
    IF posted.threw
    THEN [threw |-> TRUE, message |-> "Failed to generate image. Please try again."]
    ELSE [threw |-> FALSE, images |-> ImagesField(posted.value)]

GeminiService_editImage(posted) ==
    IF posted.threw
    THEN [threw |-> TRUE, message |-> "Failed to edit image. Please try again."]
    ELSE [threw |-> FALSE, images |-> ImagesField(posted.value)]

(* app store setters (useAppStore) *)
setIsGenerating(v) == isGenerating' = v
setError(e) == appError' = e
setCanvasImage(url) == canvasImage' = url
addGeneration(generation) == generations' = Append(generations, generation)
addEdit(edit) == edits' = Append(edits, edit)
selectGeneration(id) == selectedGenerationId' = id
selectEdit(id) == selectedEditId' = id

OutputAssets_Reversed(images) ==
    [i \in 1..Len(images) |->
        [type |-> "output", url |-> DataUri(images[Len(images) + 1 - i])]]

\* images.map(base64 => ({ type: 'output', url: `data:image/png;base64,${base64}` }))
OutputAssets(images) ==
    [i \in 1..Len(images) |-> [type |-> "output", url |-> DataUri(images[i])]]

\* request.referenceImages ? request.referenceImages.map(...) : []
SourceAssets(request) ==
    IF "referenceImages" \in DOMAIN request /\ request.referenceImages # <<>>
    THEN [i \in 1..Len(request.referenceImages) |->
            [type |-> "original", url |-> DataUri(request.referenceImages[i])]]
    ELSE <<>>

\* the generate/edit control is disabled while the store says "generating"
UiEnabled == ~isGenerating

(* useImageGeneration *)

Generate_onMutate_NoFlag ==
    /\ UNCHANGED isGenerating
    /\ setError(<<>>)

Generate_onMutate ==
    /\ setIsGenerating(TRUE)
    /\ setError(<<>>)

Generate_onError_KeepFlag(message) ==
    /\ setError(<<message>>)
    /\ UNCHANGED <<isGenerating, canvasImage, historyVars>>

Generate_onError(message) ==
    /\ setError(<<message>>)
    /\ setIsGenerating(FALSE)
    /\ UNCHANGED <<canvasImage, historyVars>>

Generate_onSuccess(images, request) ==
    IF images = <<>>
    THEN Generate_onError(TypeErrorReading("length"))
    ELSE /\ IF Len(images[1]) > 0
            THEN LET outputAssets == OutputAssets(images[1])
                     generation == [id |-> nextId,
                                    prompt |-> request.prompt,
                                    sourceAssets |-> SourceAssets(request),
                                    outputAssets |-> outputAssets]
                 IN  /\ addGeneration(generation)
                     /\ setCanvasImage(outputAssets[1].url)
                     /\ nextId' = nextId + 1
                     /\ UNCHANGED <<edits, selectedGenerationId, selectedEditId>>
            ELSE UNCHANGED <<canvasImage, historyVars>>
         /\ setIsGenerating(FALSE)
         /\ UNCHANGED appError

(* useImageEditing *)

Edit_onMutate ==
    /\ setIsGenerating(TRUE)
    /\ setError(<<>>)

Edit_onError(message) ==
    /\ setError(<<message>>)
    /\ setIsGenerating(FALSE)
    /\ UNCHANGED <<canvasImage, historyVars>>

ParentGenerationId_LastOnly ==
    IF generations # <<>> THEN <<generations[Len(generations)].id>>
    ELSE <<>>

\* selectedGenerationId || (currentProject?.generations[last]?.id || '')
ParentGenerationId ==
    IF selectedGenerationId # <<>> THEN selectedGenerationId
    ELSE IF generations # <<>> THEN <<generations[Len(generations)].id>>
    ELSE <<>>

Edit_onSuccess(images, instr) ==
    IF images = <<>>
    THEN Edit_onError(TypeErrorReading("length"))
    ELSE /\ IF Len(images[1]) > 0
            THEN LET outputAssets == OutputAssets(images[1])
                     masked == Len(brushStrokes) > 0
                     edit == [id |-> nextId,
                              parentGenerationId |-> ParentGenerationId,
                              maskAssetId |-> IF masked THEN <<nextId + 1>> ELSE <<>>,
                              instruction |-> instr,
                              outputAssets |-> outputAssets]
                 IN  /\ addEdit(edit)
                     /\ setCanvasImage(outputAssets[1].url)
                     /\ selectEdit(<<edit.id>>)
                     /\ selectGeneration(<<>>)
                     /\ nextId' = nextId + (IF masked THEN 2 ELSE 1)
                     /\ UNCHANGED generations
            ELSE UNCHANGED <<canvasImage, historyVars>>
         /\ setIsGenerating(FALSE)
         /\ UNCHANGED appError

StrokeDrawn(stroke) == Len(stroke.points) >= 4
UrlIsData(url) == IncludesBase64(url)

\* the mask canvas: black, of the source image's size, the drawn strokes in white
RenderMask(sourceImage, strokes) ==
    [size |-> sourceImage, white |-> SelectSeq(strokes, StrokeDrawn)]

Edit_request_DrawnOnly(instr, sourceImage, refUrls, strokes) ==
    LET base64Image == IF IncludesBase64(sourceImage)
                       THEN AfterBase64(sourceImage) ELSE sourceImage
        dataUrls == SelectSeq(refUrls, UrlIsData)
        referenceImages == [i \in 1..Len(dataUrls) |-> AfterBase64(dataUrls[i])]
    IN  [instruction |-> instr, originalImage |-> base64Image]
        @@ (IF Len(referenceImages) > 0
            THEN [referenceImages |-> referenceImages] ELSE EmptyObject)
        @@ (IF Len(SelectSeq(strokes, StrokeDrawn)) > 0
            THEN [maskImage |-> RenderMask(sourceImage, strokes)] ELSE EmptyObject)

\* the EditRequest built by the edit mutationFn
Edit_request(instr, sourceImage, refUrls, strokes) ==
    LET base64Image == IF IncludesBase64(sourceImage)
                       THEN AfterBase64(sourceImage) ELSE sourceImage
        dataUrls == SelectSeq(refUrls, UrlIsData)
        referenceImages == [i \in 1..Len(dataUrls) |-> AfterBase64(dataUrls[i])]
    IN  [instruction |-> instr, originalImage |-> base64Image]
        @@ (IF Len(referenceImages) > 0
            THEN [referenceImages |-> referenceImages] ELSE EmptyObject)
        @@ (IF Len(strokes) > 0
            THEN [maskImage |-> RenderMask(sourceImage, strokes)] ELSE EmptyObject)

\* the request line of a fetch, without its body
FetchLine(f) == [endpoint |-> f.endpoint, method |-> f.method]

Without(s, i) == SubSeq(s, 1, i - 1) \o SubSeq(s, i + 1, Len(s))

InitClient ==
    /\ isGenerating = FALSE
    /\ appError = <<>>
    /\ canvasImage = <<>>
    /\ editReferenceImages \in ReferenceUrlLists
    /\ brushStrokes \in StrokeLists
    /\ inflight = <<>>
    /\ lastPost = <<>>
    /\ EmptyHistory
    /\ IdleProxy
    /\ IdlePrompt
    /\ IdleAux

\* generate(request): onMutate, then mutationFn calls the service, which posts
UserGenerate ==
    \E request \in ClientRequests :
        /\ UiEnabled
        /\ Len(inflight) < MaxInflight
        /\ Len(generations) + Len(edits) < MaxHistory
        /\ Generate_onMutate
        /\ inflight' = Append(inflight,
               [kind |-> "generate", stage |-> "fetching", arg |-> request,
                fetches |-> ApiService_post_fetch("/api/generate", request)])
        /\ lastPost' = <<>>
        /\ UNCHANGED <<canvasImage, editReferenceImages, brushStrokes,
                       historyVars, proxyVars, promptVars, auxVars>>

\* edit(instruction): onMutate; mutationFn has not run yet
UserEdit ==
    \E instr \in Instructions :
        /\ UiEnabled
        /\ Len(inflight) < MaxInflight
        /\ Len(generations) + Len(edits) < MaxHistory
        /\ Edit_onMutate
        /\ inflight' = Append(inflight,
               [kind |-> "edit", stage |-> "started", arg |-> instr, fetches |-> <<>>])
        /\ lastPost' = <<>>
        /\ UNCHANGED <<canvasImage, editReferenceImages, brushStrokes,
                       historyVars, proxyVars, promptVars, auxVars>>

\* the user picks a generation of the history: selectGeneration(id)
UserSelectGeneration ==
    \E k \in 1..Len(generations) :
        /\ UiEnabled
        /\ selectedGenerationId # <<generations[k].id>>
        /\ selectGeneration(<<generations[k].id>>)
        /\ UNCHANGED <<isGenerating, appError, canvasImage, editReferenceImages,
                       brushStrokes, inflight, lastPost, generations, edits,
                       selectedEditId, nextId, proxyVars, promptVars, auxVars>>

\* the user loads an image of their own onto the empty canvas:
\* setCanvasImage(url)
UserUpload ==
    /\ UiEnabled
    /\ canvasImage = <<>>
    /\ setCanvasImage(DataUri("imgA"))
    /\ UNCHANGED <<isGenerating, appError, editReferenceImages, brushStrokes,
                   inflight, lastPost, historyVars, proxyVars, promptVars, auxVars>>

EditMutationFn_NoGuard ==
    \E i \in 1..Len(inflight) :
        /\ inflight[i].stage = "started"
        /\ inflight' = [inflight EXCEPT
              ![i].stage = "fetching",
              ![i].fetches = ApiService_post_fetch("/api/edit",
                  Edit_request(inflight[i].arg, canvasImage,
                               editReferenceImages, brushStrokes))]
        /\ UNCHANGED <<isGenerating, appError, canvasImage, historyVars,
                       editReferenceImages, brushStrokes, lastPost,
                       proxyVars, promptVars, auxVars>>

\* the edit mutationFn up to its service call: it throws without a canvas image
EditMutationFn ==
    \E i \in 1..Len(inflight) :
        /\ inflight[i].stage = "started"
        /\ IF canvasImage = <<>>
           THEN /\ Edit_onError("No image to edit")
                /\ inflight' = Without(inflight, i)
           ELSE /\ inflight' = [inflight EXCEPT
                      ![i].stage = "fetching",
                      ![i].fetches = ApiService_post_fetch("/api/edit",
                          Edit_request(inflight[i].arg, canvasImage,
                                       editReferenceImages, brushStrokes))]
                /\ UNCHANGED <<isGenerating, appError, canvasImage, historyVars>>
        /\ UNCHANGED <<editReferenceImages, brushStrokes, lastPost,
                       proxyVars, promptVars, auxVars>>

\* the fetch of call i settles with o: post, the service and the hook's
\* onSuccess or onError run to the end
FetchSettles(i, o) ==
    /\ inflight[i].stage = "fetching"
    /\ LET posted == ApiService_post(o)
       IN  /\ lastPost' = <<[endpoint |-> inflight[i].fetches[1].endpoint,
                             fetches |-> [k \in 1..Len(inflight[i].fetches) |->
                                            FetchLine(inflight[i].fetches[k])],
                             outcome |-> o, result |-> posted]>>
           /\ IF inflight[i].kind = "generate"
              THEN LET r == GeminiService_generateImage(posted)
                   IN  IF r.threw THEN Generate_onError(r.message)
                       ELSE Generate_onSuccess(r.images, inflight[i].arg)
              ELSE LET r == GeminiService_editImage(posted)
                   IN  IF r.threw THEN Edit_onError(r.message)
                       ELSE Edit_onSuccess(r.images, inflight[i].arg)
    /\ inflight' = Without(inflight, i)
    /\ UNCHANGED <<editReferenceImages, brushStrokes, proxyVars, promptVars, auxVars>>

FetchRejects ==
    \E i \in 1..Len(inflight) : FetchSettles(i, [network |-> TRUE])
FetchResponds ==
    \E i \in 1..Len(inflight), o \in {x \in FetchOutcomes : ~x.network} :
        FetchSettles(i, o)

NextClient ==
    \/ UserGenerate \/ UserEdit \/ EditMutationFn
    \/ UserSelectGeneration \/ UserUpload
    \/ FetchRejects \/ FetchResponds

SpecClient == InitClient /\ [][NextClient]_vars

\* C9: apiService.post sends exactly one POST per invocation; with an OK
\* status it returns the parsed JSON body unchanged; with a non-OK status, a
\* failed network call or an unparsable body it throws one fixed generic
\* message, whatever the status code and the server's error body.
C9_PostOnceGenericError ==
    /\ \A i \in 1..Len(inflight) :
          inflight[i].stage = "fetching" =>
              Len(inflight[i].fetches) = 1 /\ inflight[i].fetches[1].method = "POST"
    /\ lastPost # <<>> =>
          LET p == lastPost[1]
              ok == ~p.outcome.network /\ p.outcome.status \in 200..299
          IN  /\ Len(p.fetches) = 1
              /\ p.fetches[1].method = "POST"
              /\ IF ok /\ p.outcome.json # <<>>
                 THEN p.result = [threw |-> FALSE, value |-> p.outcome.json[1]]
                 ELSE p.result =
                        [threw |-> TRUE,
                         message |-> "An unexpected error occurred. Please try again."]

C9_Witness ==
    /\ lastPost # <<>>
    /\ ~lastPost[1].outcome.network
    /\ lastPost[1].outcome.status = 500
    /\ lastPost[1].outcome.json = <<[error |-> "quota exceeded"]>>
    /\ lastPost[1].result.threw

\* C10: at most one generate-or-edit call is in flight at a time, and
\* isGenerating is true in every state in which one is in flight.
C10_SingleCallWhileGenerating ==
    /\ Len(inflight) <= 1
    /\ Len(inflight) > 0 => isGenerating

C10_Witness ==
    /\ Len(inflight) = 1
    /\ inflight[1].kind = "edit" /\ inflight[1].stage = "fetching"
    /\ Len(generations) = 1 /\ canvasImage = generations[1].outputAssets[1].url
    /\ isGenerating

(* Steps of the hooks, read off two successive states *)

\* call i settled in this step: its post finished and its callbacks ran
Settled(i) ==
    /\ i \in 1..Len(inflight)
    /\ inflight[i].stage = "fetching"
    /\ inflight' = Without(inflight, i)
    /\ lastPost' # <<>>

\* the images the service call of this step returned, <<>> if it returned none
ReturnedImages ==
    IF ~lastPost'[1].result.threw /\ "images" \in DOMAIN lastPost'[1].result.value
    THEN <<lastPost'[1].result.value.images>>
    ELSE <<>>

RefsOf(request) ==
    IF "referenceImages" \in DOMAIN request THEN request.referenceImages ELSE <<>>

\* C16: when a generate call returns k >= 1 images, exactly one Generation
\* record is appended to the history, with k output assets in the returned
\* order and one source asset per reference image of the request, and the
\* canvas image becomes the data URI of the first output; when it returns
\* zero images the history and the canvas image stay as they were.
C16_GenerationRecorded ==
    [][\A i \in 1..Len(inflight) :
          (Settled(i) /\ inflight[i].kind = "generate" /\ ReturnedImages # <<>>) =>
              LET images == ReturnedImages[1]
                  k == Len(images)
                  refs == RefsOf(inflight[i].arg)
              IN  IF k >= 1
                  THEN /\ Len(generations') = Len(generations) + 1
                       /\ SubSeq(generations', 1, Len(generations)) = generations
                       /\ edits' = edits
                       /\ LET g == generations'[Len(generations')]
                          IN  /\ Len(g.outputAssets) = k
                              /\ \A j \in 1..k :
                                    g.outputAssets[j].url =
                                        <<"data:image/png;base64,", images[j]>>
                              /\ Len(g.sourceAssets) = Len(refs)
                              /\ \A j \in 1..Len(refs) :
                                    g.sourceAssets[j].url =
                                        <<"data:image/png;base64,", refs[j]>>
                              /\ canvasImage' = g.outputAssets[1].url
                  ELSE /\ generations' = generations
                       /\ edits' = edits
                       /\ canvasImage' = canvasImage
      ]_vars

C16_Witness ==
    /\ lastPost # <<>> /\ lastPost[1].endpoint = "/api/generate"
    /\ ~lastPost[1].result.threw
    /\ Len(generations) = 1
    /\ Len(generations[1].outputAssets) = 2
    /\ generations[1].outputAssets[1].url # generations[1].outputAssets[2].url
    /\ Len(generations[1].sourceAssets) = 1
    /\ canvasImage = generations[1].outputAssets[1].url

\* the message the failed service call of this step threw, <<>> if it returned
ServiceFailure(kind) ==
    IF lastPost'[1].result.threw
    THEN IF kind = "generate"
         THEN <<"Failed to generate image. Please try again.">>
         ELSE <<"Failed to edit image. Please try again.">>
    ELSE <<>>

\* C19: every generate or edit mutation whose service call settles leaves
\* isGenerating false; when it settles with a failure the error state is the
\* failure message and the generations, the edits, the canvas image and the
\* selection are unchanged; starting a mutation clears the previous error.
C19_SettleResetsFlag ==
    [][/\ \A i \in 1..Len(inflight) :
             Settled(i) =>
                 /\ isGenerating' = FALSE
                 /\ ServiceFailure(inflight[i].kind) # <<>> =>
                       /\ appError' = ServiceFailure(inflight[i].kind)
                       /\ generations' = generations
                       /\ edits' = edits
                       /\ canvasImage' = canvasImage
                       /\ selectedGenerationId' = selectedGenerationId
                       /\ selectedEditId' = selectedEditId
       /\ Len(inflight') > Len(inflight) => appError' = <<>>
      ]_vars

C19_Witness ==
    /\ lastPost # <<>> /\ lastPost[1].result.threw
    /\ inflight = <<>>
    /\ ~isGenerating
    /\ appError = <<"Failed to edit image. Please try again.">>
    /\ Len(generations) = 1
    /\ canvasImage = generations[1].outputAssets[1].url

\* C20: an edit started while there is no canvas image fails with
\* 'No image to edit' and no request is sent to the edit endpoint; after
\* it isGenerating is false, the error state holds that message and no
\* Edit record has been added.
C20_EditWithoutImageFails ==
    [][\A i \in 1..Len(inflight) :
          (/\ inflight[i].kind = "edit" /\ inflight[i].stage = "started"
           /\ canvasImage = <<>>
           /\ inflight' # inflight) =>
              /\ inflight' = Without(inflight, i)
              /\ inflight[i].fetches = <<>>
              /\ lastPost' = lastPost
              /\ isGenerating' = FALSE
              /\ appError' = <<"No image to edit">>
              /\ edits' = edits
      ]_vars

C20_Witness ==
    /\ appError = <<"No image to edit">>
    /\ canvasImage = <<>>
    /\ inflight = <<>>
    /\ ~isGenerating
    /\ edits = <<>>

\* C21: the edit request carries a maskImage if and only if there is at
\* least one brush stroke at the time of the edit, drawn or not; its
\* referenceImages are the edit reference images that are base64 data URIs,
\* in order and without their prefix, and the field is omitted when there
\* is none.
C21_EditRequestMaskAndRefs ==
    \A i \in 1..Len(inflight) :
        (inflight[i].kind = "edit" /\ inflight[i].stage = "fetching") =>
            LET body == inflight[i].fetches[1].body
                dataUris == SelectSeq(editReferenceImages,
                                LAMBDA u : u[1] = "data:image/png;base64,")
            IN  /\ inflight[i].fetches[1].endpoint = "/api/edit"
                /\ "maskImage" \in DOMAIN body <=> Len(brushStrokes) >= 1
                /\ "referenceImages" \in DOMAIN body <=> Len(dataUris) >= 1
                /\ "referenceImages" \in DOMAIN body =>
                      /\ Len(body.referenceImages) = Len(dataUris)
                      /\ \A k \in 1..Len(dataUris) :
                            body.referenceImages[k] = Tail(dataUris[k])

C21_Witness ==
    /\ Len(inflight) = 1
    /\ inflight[1].kind = "edit" /\ inflight[1].stage = "fetching"
    /\ Len(brushStrokes) = 1 /\ Len(brushStrokes[1].points) < 4
    /\ "maskImage" \in DOMAIN inflight[1].fetches[1].body
    /\ Len(editReferenceImages) = 2
    /\ inflight[1].fetches[1].body.referenceImages = <<(<<"imgB">>)>>

\* C22: when an edit call returns k >= 1 images, exactly one Edit record is
\* appended, whose parent is the selected generation if there is one,
\* otherwise the last generation of the project, otherwise the empty id; the
\* canvas image becomes the first output asset, the selected edit is the new
\* edit and the selected generation is cleared. When it returns zero images,
\* the history, the canvas image and both selections stay as they were.
C22_EditRecorded ==
    [][\A i \in 1..Len(inflight) :
          (Settled(i) /\ inflight[i].kind = "edit" /\ ReturnedImages # <<>>) =>
              LET images == ReturnedImages[1]
                  k == Len(images)
              IN  IF k >= 1
                  THEN /\ Len(edits') = Len(edits) + 1
                       /\ SubSeq(edits', 1, Len(edits)) = edits
                       /\ generations' = generations
                       /\ LET e == edits'[Len(edits')]
                          IN  /\ e.parentGenerationId =
                                    IF selectedGenerationId # <<>>
                                    THEN selectedGenerationId
                                    ELSE IF Len(generations) >= 1
                                         THEN <<generations[Len(generations)].id>>
                                         ELSE <<>>
                              /\ Len(e.outputAssets) = k
                              /\ e.outputAssets[1].url =
                                    <<"data:image/png;base64,", images[1]>>
                              /\ canvasImage' = e.outputAssets[1].url
                              /\ selectedEditId' = <<e.id>>
                              /\ selectedGenerationId' = <<>>
                  ELSE /\ edits' = edits
                       /\ generations' = generations
                       /\ canvasImage' = canvasImage
                       /\ selectedEditId' = selectedEditId
                       /\ selectedGenerationId' = selectedGenerationId
      ]_vars

C22_Witness ==
    /\ lastPost # <<>> /\ lastPost[1].endpoint = "/api/edit"
    /\ ~lastPost[1].result.threw
    /\ Len(generations) = 2 /\ Len(edits) = 1
    /\ edits[1].parentGenerationId = <<generations[1].id>>
    /\ edits[1].id > generations[2].id
    /\ selectedEditId = <<edits[1].id>>
    /\ selectedGenerationId = <<>>
    /\ canvasImage = edits[1].outputAssets[1].url

\* C23: removeNotification(id), called by the user, by the store's timer or
\* by a Toast's timer, removes exactly the notifications with that id and
\* keeps all the others in their order; for an id that is no longer in the
\* list (a timer that fires after a manual close or after
\* clearNotifications) the list stays as it was, so a timer never removes a
\* notification other than the one it was created for.
C23_RemoveOnlyThatId ==
    [][lastStep'.op \in {"removeNotification", "storeTimer", "toastTimer"} =>
          LET id == lastStep'.id
              kept == {k \in 1..Len(notifications) : notifications[k].id # id}
          IN  /\ Len(notifications') = Cardinality(kept)
              /\ \A m \in 1..Len(notifications') :
                    notifications'[m] =
                        notifications[CHOOSE k \in kept :
                                         Cardinality({j \in kept : j < k}) = m - 1]
              /\ (\A k \in 1..Len(notifications) : notifications[k].id # id) =>
                    notifications' = notifications
              /\ lastStep'.op \in {"storeTimer", "toastTimer"} =>
                    /\ id < nextNotif
                    /\ \A k \in 1..Len(notifications) :
                          notifications[k].id # id =>
                              \E m \in 1..Len(notifications') :
                                  notifications'[m] = notifications[k]
      ]_vars

C23_Witness ==
    /\ lastStep = [op |-> "storeTimer", id |-> 1, listed |-> FALSE]
    /\ Len(notifications) = 1
    /\ notifications[1].id = 2
    /\ 2 \in storeTimers

----------------------------------------------------------------------------
(* The settings modal: src/src/components/SettingsModal.tsx. Its import    *)
(* '../services/geminiService' names src/src/services/geminiService.ts,    *)
(* whose GeminiService has no validateApiKey; the GeminiService that has   *)
(* one is the direct service of src/src/services/apiService.ts. Both       *)
(* bindings are modelled; the binding is fixed in the initial state.       *)

ServiceModules == {"geminiService.ts", "apiService.ts"}
\* the text of the key field, " " being white space
InputKeys == {<<>>, <<" ">>, <<"key-1">>, <<" ", "key-1", " ">>, <<"key-2">>}
\* how the test call of validateApiKey settles
SaveOutcomes ==
    {[ok |-> TRUE]}
    \cup {[ok |-> FALSE, error |-> e] :
            e \in {g \in GeminiErrors : Len(g.message) <= 1 /\ g.name = "Error"}}

RECURSIVE TrimStart(_)
TrimStart(key) ==
    IF key # <<>> /\ Head(key) = " " THEN TrimStart(Tail(key)) ELSE key
RECURSIVE TrimEnd(_)
TrimEnd(key) ==
    IF key # <<>> /\ key[Len(key)] = " "
    THEN TrimEnd(SubSeq(key, 1, Len(key) - 1)) ELSE key
\* String.prototype.trim
Trim(key) == TrimEnd(TrimStart(key))

\* apiKey || ''
KeyOrEmpty == IF storedKey # <<>> THEN storedKey[1] ELSE <<>>

setApiKey(key) == storedKey' = key
onOpenChange(open) == modalOpen' = open
setIsValidating(v) == isValidating' = v
showSuccess(title, message) ==
    notice' = <<[type |-> "success", title |-> title, message |-> message]>>
showError(title, message) ==
    notice' = <<[type |-> "error", title |-> title, message |-> message]>>

InitSettings ==
    /\ serviceModule \in ServiceModules
    /\ storedKey \in {<<>>, <<(<<"key-0">>)>>}
    /\ inputKey = KeyOrEmpty
    /\ modalOpen = TRUE
    /\ isValidating = FALSE
    /\ spc = "idle"
    /\ savecalls = <<>>
    /\ saved = <<>>
    /\ notice = <<>>
    /\ env = EmptyObject
    /\ pc = "idle"
    /\ req = <<>>
    /\ upstream = <<>>
    /\ credReads = 0
    /\ outcome = <<>>
    /\ response = <<>>
    /\ IdlePrompt
    /\ IdleClient
    /\ IdleConc
    /\ IdleDirect
    /\ IdleNotify

\* the user edits the key field: setInputKey(e.target.value)
SetInputKey ==
    \E key \in InputKeys :
        /\ modalOpen
        /\ key # inputKey
        /\ inputKey' = key
        /\ saved' = <<>>
        /\ UNCHANGED <<serviceModule, storedKey, modalOpen, isValidating, spc,
                       savecalls, notice>>
        /\ UNCHANGED <<proxyVars, promptVars, clientVars, concVars, directVars,
                       notifyVars>>

\* the catch block of handleSave, then its finally block
handleSave_Catch(trimmedKey, thrown) ==
    /\ showError("Validation failed",
                 "Unable to validate API key. It will be saved anyway.")
    /\ setApiKey(<<trimmedKey>>)
    /\ onOpenChange(FALSE)
    /\ setIsValidating(FALSE)
    /\ saved' = <<[trimmedKey |-> trimmedKey,
                   validation |-> <<[threw |-> TRUE, message |-> thrown]>>]>>

\* handleSave up to its await, or to its end when nothing is awaited
handleSave_Start ==
    /\ modalOpen /\ ~isValidating /\ spc = "idle"
    /\ LET trimmedKey == Trim(inputKey)
       IN  IF trimmedKey = <<>>
           THEN /\ setApiKey(<<>>)
                /\ showSuccess("Settings saved",
                     "API key cleared. Using environment variable if available.")
                /\ onOpenChange(FALSE)
                /\ saved' = <<[trimmedKey |-> trimmedKey, validation |-> <<>>]>>
                /\ UNCHANGED <<isValidating, spc, savecalls>>
           ELSE IF serviceModule = "geminiService.ts"
                THEN \* geminiService.validateApiKey is undefined: the call throws
                     /\ handleSave_Catch(trimmedKey,
                           "geminiService.validateApiKey is not a function")
                     /\ savecalls' = <<>>
                     /\ UNCHANGED spc
                ELSE /\ setIsValidating(TRUE)
                     /\ savecalls' = validateApiKey_Start(trimmedKey)
                     /\ spc' = "validating"
                     /\ saved' = <<>>
                     /\ UNCHANGED <<storedKey, modalOpen, notice>>
    /\ UNCHANGED <<serviceModule, inputKey>>
    /\ UNCHANGED <<proxyVars, promptVars, clientVars, concVars, directVars,
                   notifyVars>>

\* handleSave once validateApiKey settled, its test call having settled with o
handleSave_Finish(o) ==
    /\ spc = "validating"
    /\ LET trimmedKey == savecalls[1].apiKey
           r == validateApiKey_Finish(o)
       IN  IF r.threw
           THEN handleSave_Catch(trimmedKey, r.message)
           ELSE /\ IF r.value.valid
                   THEN /\ setApiKey(<<trimmedKey>>)
                        /\ showSuccess("Settings saved",
                                       "API key is valid and has been saved.")
                        /\ onOpenChange(FALSE)
                   ELSE /\ showError("Invalid API key",
                              IF "error" \in DOMAIN r.value
                                 /\ r.value.error.userMessage # ""
                              THEN r.value.error.userMessage
                              ELSE "Please check your API key.")
                        /\ UNCHANGED <<storedKey, modalOpen>>
                /\ setIsValidating(FALSE)
                /\ saved' = <<[trimmedKey |-> trimmedKey,
                               validation |-> <<r>>]>>
    /\ spc' = "idle"
    /\ UNCHANGED <<serviceModule, inputKey, savecalls>>
    /\ UNCHANGED <<proxyVars, promptVars, clientVars, concVars, directVars,
                   notifyVars>>

HandleSaveSettles == \E o \in SaveOutcomes : handleSave_Finish(o)

\* handleCancel
HandleCancel ==
    /\ modalOpen /\ ~isValidating
    /\ inputKey' = KeyOrEmpty
    /\ onOpenChange(FALSE)
    /\ saved' = <<>>
    /\ UNCHANGED <<serviceModule, storedKey, isValidating, spc, savecalls, notice>>
    /\ UNCHANGED <<proxyVars, promptVars, clientVars, concVars, directVars,
                   notifyVars>>

\* the parent opens the modal again
OpenSettings ==
    /\ ~modalOpen /\ spc = "idle"
    /\ onOpenChange(TRUE)
    /\ saved' = <<>>
    /\ UNCHANGED <<serviceModule, inputKey, storedKey, isValidating, spc,
                   savecalls, notice>>
    /\ UNCHANGED <<proxyVars, promptVars, clientVars, concVars, directVars,
                   notifyVars>>

NextSettings ==
    \/ SetInputKey \/ handleSave_Start \/ HandleSaveSettles
    \/ HandleCancel \/ OpenSettings

SpecSettings == InitSettings /\ [][NextSettings]_vars

\* a handleSave completed in this step
SaveCompleted == saved' # <<>> /\ (saved = <<>> \/ spc = "validating")

\* what validateApiKey reported to the handleSave that completed: "valid",
\* "invalid", or "none" when it was not called or did not return
Reported(save) ==
    IF save.validation = <<>> \/ save.validation[1].threw THEN "none"
    ELSE IF save.validation[1].value.valid THEN "valid" ELSE "invalid"

\* C24: handleSave with a non-empty trimmed key stores that key and closes
\* the modal only if validateApiKey reported the key valid; when validation
\* reports it invalid the stored key is unchanged and the modal stays open;
\* with an empty trimmed key the stored key is cleared to null and no
\* validation call is made. In every case isValidating is false once
\* handleSave has completed.
C24_SaveOnlyIfValid ==
    [][SaveCompleted =>
          LET save == saved'[1]
          IN  /\ isValidating' = FALSE
              /\ IF save.trimmedKey = <<>>
                 THEN /\ storedKey' = <<>>
                      /\ save.validation = <<>>
                      /\ savecalls' = savecalls
                 ELSE /\ (storedKey' # storedKey \/ ~modalOpen') =>
                            Reported(save) = "valid"
                      /\ Reported(save) = "valid" =>
                            storedKey' = <<save.trimmedKey>> /\ ~modalOpen'
                      /\ Reported(save) = "invalid" =>
                            storedKey' = storedKey /\ modalOpen'
      ]_vars

====
